---- MODULE Spec2Model ----
(***************************************************************************)
(* donezo: a single-user task list served over HTTP.  The model covers the *)
(* credential store (sessions, api_tokens), the three request extractors   *)
(* of middleware.rs (Auth, SessionAuth, MaybeAuth), the handlers of        *)
(* handlers/auth.rs, handlers/api.rs and handlers/web.rs, and the todos    *)
(* table of db.rs with its position column.                                *)
(*                                                                         *)
(* Every store function of db.rs takes the one connection mutex for its    *)
(* whole body, so each is one atomic step.  A handler action below is the  *)
(* extractor followed by the handler body.  Option<T> is a set with at     *)
(* most one element: None is {} and Some(x) is {x}.                        *)
(* SpecCalls checks the atomicity this rests on, running the calls on the  *)
(* todos table one statement at a time under the mutex.                    *)
(***************************************************************************)
EXTENDS Integers, Sequences, FiniteSets, TLC

VARIABLES
    now,            \* the system clock, in seconds (SystemTime::now / strftime('%s','now'))
    password_hash,  \* AppState.password_hash, computed once at process start
    sessions,       \* table sessions: rows [id, created_at, expires_at]
    api_tokens,     \* table api_tokens: rows [id, token, name]
    todos,          \* table todos: rows [id, title, completed, position, created_at, updated_at]
    issued,         \* the strings generate_token has returned so far
    response,       \* the exchange just completed, until its response is delivered
    pool,           \* DbPool: the threads holding the connection mutex, and each
                    \* thread's call into db.rs in progress
    faults          \* the functions of db.rs whose statements fail with a
                    \* rusqlite::Error at present

store == <<sessions, api_tokens, todos>>
vars == <<now, password_hash, sessions, api_tokens, todos, issued, response, pool, faults>>

(***************************************************************************)
(* Bounds of the checked instances.                                        *)
(***************************************************************************)
\* The clock is followed for MaxSkew seconds, and MaxSkew more a session lifetime later.
MaxSkew == 1
\* Longest id sequence a reorder carries in SpecTodo, SpecPlain and SpecCalls.
MaxReorderLen == 2
\* Longest id sequence a reorder request carries in SpecOrder.
MaxOrderLen == 3
\* Last second of the clock in SpecEdit.
MaxEditClock == 2
\* Most pieces (name=value; ...) of one Cookie header in SpecCookies.
MaxCookiesPerHeader == 2

\* Values the clients and the generator draw from.
SessionIds == {"s1", "s2"}
TokenValues == {"t1", "t2"}
Salts == {"salt1"}
DONEZO_PASSWORD == "testpassword"
Passwords == {DONEZO_PASSWORD, "wrongpassword"}

(***************************************************************************)
(* auth.rs                                                                 *)
(***************************************************************************)
\* The Argon2 digest of a password under a salt: a one-way value that is
\* equal for two inputs only when password and salt are both equal.
Argon2(password, salt) == <<"argon2", salt, password>>

hash_password(password, salt) == [salt |-> salt, digest |-> Argon2(password, salt)]

\* verify_password that only checks that the hash parses.
verify_password_AnyPassword(password, hash) == hash.digest[1] = "argon2"

verify_password(password, hash) == Argon2(password, hash.salt) = hash.digest

(***************************************************************************)
(* Requests.  parts.cookies is the sequence of name/value pairs of the     *)
(* Cookie headers in order; parts.authorization is the Authorization       *)
(* header: absent, not text, or a text split after its first seven         *)
(* characters into scheme and rest.                                        *)
(***************************************************************************)
NoHeader == [kind |-> "absent", scheme |-> "", rest |-> ""]
BinaryHeader == [kind |-> "binary", scheme |-> "", rest |-> ""]
TextHeader(scheme, rest) == [kind |-> "text", scheme |-> scheme, rest |-> rest]
Bearer(t) == TextHeader("Bearer ", t)

SessionCookie(v) == [name |-> "session", value |-> v]
Parts(cookies, authorization) == [cookies |-> cookies, authorization |-> authorization]

(***************************************************************************)
(* db.rs: sessions                                                         *)
(***************************************************************************)
\* The statements of the function f of db.rs fail at present.
Failing(f) == f \in faults

get_session(id) == {s \in sessions : s.id = id}

\* create_session as INSERT OR REPLACE: a row with the id gives way to the new
\* one.
create_session_Replaces(session) ==
    [ok |-> TRUE,
     sessions |-> {s \in sessions : s.id # session.id} \cup
          {[id |-> session.id, created_at |-> now, expires_at |-> session.expires_at]}]

\* INSERT INTO sessions (id, expires_at): created_at takes the column default,
\* the store's clock; id is the PRIMARY KEY, so a second row with it is refused.
create_session(session) ==
    IF \E s \in sessions : s.id = session.id
    THEN [ok |-> FALSE, sessions |-> sessions]
    ELSE [ok |-> TRUE,
          sessions |-> sessions \cup
              {[id |-> session.id, created_at |-> now, expires_at |-> session.expires_at]}]

\* delete_session whose DELETE matches no row.
delete_session_NoRow(id) == sessions

delete_session(id) == {s \in sessions : s.id # id}

\* The sweep written with <=: a row is deleted at its expires_at already.
cleanup_expired_sessions_Inclusive == {s \in sessions : ~(s.expires_at <= now)}

\* DELETE FROM sessions WHERE expires_at < now.
cleanup_expired_sessions == {s \in sessions : ~(s.expires_at < now)}

(***************************************************************************)
(* db.rs: api_tokens                                                       *)
(***************************************************************************)
\* The rowid SQLite gives a new row of an INTEGER PRIMARY KEY table.
NextRowId(table) ==
    IF table = {} THEN 1
    ELSE (CHOOSE m \in {r.id : r \in table} : \A r \in table : r.id <= m) + 1

\* create_api_token returning the row without the id the table gave it.
create_api_token_IdNotRead(token, name) ==
    IF \E t \in api_tokens : t.token = token
    THEN [ok |-> FALSE, api_tokens |-> api_tokens, row |-> {}]
    ELSE LET row == [id |-> NextRowId(api_tokens), token |-> token, name |-> name]
         IN [ok |-> TRUE, api_tokens |-> api_tokens \cup {row},
             row |-> {[row EXCEPT !.id = 0]}]

\* token is UNIQUE NOT NULL: a second row with the same token is refused.
\* The created_at column, which only orders list_api_tokens, is not kept.
create_api_token(token, name) ==
    IF \E t \in api_tokens : t.token = token
    THEN [ok |-> FALSE, api_tokens |-> api_tokens, row |-> {}]
    ELSE LET row == [id |-> NextRowId(api_tokens), token |-> token, name |-> name]
         IN [ok |-> TRUE, api_tokens |-> api_tokens \cup {row}, row |-> {row}]

get_api_token_by_value(token) == {t \in api_tokens : t.token = token}

\* delete_api_token reporting the row without deleting it.
delete_api_token_Kept(id) ==
    [api_tokens |-> api_tokens, deleted |-> \E t \in api_tokens : t.id = id]

delete_api_token(id) ==
    [api_tokens |-> {t \in api_tokens : t.id # id},
     deleted |-> \E t \in api_tokens : t.id = id]

\* The sequences that list every row of a table once.
RECURSIVE Enumerations(_)
Enumerations(rows) ==
    IF rows = {} THEN {<<>>}
    ELSE UNION {{<<r>> \o e : e \in Enumerations(rows \ {r})} : r \in rows}

\* ORDER BY created_at DESC: with created_at not kept, any order of the rows.
list_api_tokens == Enumerations(api_tokens)

(***************************************************************************)
(* db.rs: todos                                                            *)
(***************************************************************************)
\* SELECT COALESCE(MAX(position), 0) FROM todos
MaxPosition(table) ==
    IF table = {} THEN 0
    ELSE CHOOSE m \in {r.position : r \in table} : \A r \in table : r.position <= m

\* create_todo numbering the new row by the count of rows, not the maximum.
create_todo_CountPlusOne(title) ==
    LET row == [id |-> NextRowId(todos), title |-> title, completed |-> FALSE,
                position |-> Cardinality(todos) + 1, created_at |-> now,
                updated_at |-> now]
    IN [todos |-> todos \cup {row}, row |-> row]

\* The row create_todo inserts: position is the maximum plus one, completed
\* and the two timestamps take the column defaults.
create_todo(title) ==
    LET max_pos == MaxPosition(todos)
        row == [id |-> NextRowId(todos), title |-> title, completed |-> FALSE,
                position |-> max_pos + 1, created_at |-> now, updated_at |-> now]
    IN [todos |-> todos \cup {row}, row |-> row]

\* ORDER BY position DESC.
OrderedByPosition_Descending(rows) ==
    {e \in Enumerations(rows) :
        \A i, j \in 1..Len(e) : i < j => e[i].position >= e[j].position}

\* ORDER BY position ASC; rows with equal position come in any order.
OrderedByPosition(rows) ==
    {e \in Enumerations(rows) :
        \A i, j \in 1..Len(e) : i < j => e[i].position <= e[j].position}

list_todos == OrderedByPosition(todos)

\* list_open_todos without its WHERE completed = 0.
list_open_todos_Unfiltered == OrderedByPosition(todos)

list_open_todos == OrderedByPosition({t \in todos : ~t.completed})

get_todo_internal(table, id) == {t \in table : t.id = id}

get_todo(id) == get_todo_internal(todos, id)

\* update_todo without the early return: updated_at is written even when no
\* field is given.
update_todo_RefreshesWhenEmpty(id, title, completed) ==
    LET updated ==
            {IF t.id # id THEN t
             ELSE [t EXCEPT
                     !.title = IF title = {} THEN @ ELSE CHOOSE x \in title : TRUE,
                     !.completed = IF completed = {} THEN @
                                   ELSE CHOOSE x \in completed : TRUE,
                     !.updated_at = now] : t \in todos}
    IN [todos |-> updated, row |-> get_todo_internal(updated, id)]

\* title and completed are Options.  With both absent no statement runs and
\* the row is only read back; otherwise the given columns and updated_at are
\* written on the row with this id, if there is one.
update_todo(id, title, completed) ==
    IF title = {} /\ completed = {}
    THEN [todos |-> todos, row |-> get_todo_internal(todos, id)]
    ELSE LET updated ==
                 {IF t.id # id THEN t
                  ELSE [t EXCEPT
                          !.title = IF title = {} THEN @ ELSE CHOOSE x \in title : TRUE,
                          !.completed = IF completed = {} THEN @
                                        ELSE CHOOSE x \in completed : TRUE,
                          !.updated_at = now] : t \in todos}
         IN [todos |-> updated, row |-> get_todo_internal(updated, id)]

\* The UPDATE of reorder_todos without its WHERE clause.
SetPosition_EveryRow(table, id, position) ==
    {[t EXCEPT !.position = position, !.updated_at = now] : t \in table}

\* One UPDATE of reorder_todos: the row with this id gets this position.
SetPosition(table, id, position) ==
    {IF t.id = id THEN [t EXCEPT !.position = position, !.updated_at = now]
     ELSE t : t \in table}

\* The loop of reorder_todos counting positions from one.
RECURSIVE ReorderLoop_OneBased(_, _, _)
ReorderLoop_OneBased(table, ids, n) ==
    IF n = 0 THEN table
    ELSE SetPosition(ReorderLoop_OneBased(table, ids, n - 1), ids[n], n)

\* The loop of reorder_todos over ids[1..n]: ids[i] gets position i - 1.
RECURSIVE ReorderLoop(_, _, _)
ReorderLoop(table, ids, n) ==
    IF n = 0 THEN table
    ELSE SetPosition(ReorderLoop(table, ids, n - 1), ids[n], n - 1)

reorder_todos(ids) == ReorderLoop(todos, ids, Len(ids))

\* delete_todo closing the gap it leaves: the rows after the deleted one move
\* up by one position.
delete_todo_Renumbering(id) ==
    [todos |-> {IF \E d \in todos : d.id = id /\ d.position < t.position
                THEN [t EXCEPT !.position = t.position - 1] ELSE t :
                t \in {r \in todos : r.id # id}},
     deleted |-> \E t \in todos : t.id = id]

\* delete_todo reporting a deletion whatever the number of rows deleted.
delete_todo_AlwaysDeleted(id) ==
    [todos |-> {t \in todos : t.id # id}, deleted |-> TRUE]

delete_todo(id) ==
    [todos |-> {t \in todos : t.id # id}, deleted |-> \E t \in todos : t.id = id]

(***************************************************************************)
(* db.rs: the connection mutex.  A call into db.rs takes the mutex         *)
(* (pool.lock().unwrap()), runs its statements on the connection and       *)
(* gives the mutex back when it returns.  SpecCalls runs the calls on the  *)
(* todos table statement by statement, from several threads.               *)
(***************************************************************************)
Threads == {"w1", "w2"}

\* i counts the statements run so far, entered is the table found when the
\* mutex was taken, max_pos the local of create_todo, rows what the call has
\* read, failed whether a statement has returned an error (the ? leaves the
\* function with it), cred the session id or token the call is about or the
\* request of the call was let in by.
Call(op, id, completed, ids) ==
    [op |-> op, id |-> id, completed |-> completed, ids |-> ids,
     i |-> 0, entered |-> {}, max_pos |-> 0, rows |-> <<>>, failed |-> FALSE,
     cred |-> ""]

NoCall == Call("none", 0, {}, <<>>)

\* The statements of a call that write or read the table: one UPDATE per id
\* for reorder_todos, the SELECT of the maximum and the INSERT for
\* create_todo, the body in one piece for the others.
Statements(call) ==
    IF call.op = "reorder_todos" THEN Len(call.ids)
    ELSE IF call.op = "create_todo" THEN 2 ELSE 1

\* A mutex that lets a second thread in while the first holds it.
Unlocked_Shared == Cardinality(pool.holders) < Cardinality(Threads)

\* Mutex::lock returns only while no thread holds the mutex.
Unlocked == pool.holders = {}

\* A handler running on thread th calls a function of db.rs.
Begin(th, call) ==
    /\ pool.calls[th] = NoCall
    /\ pool' = [pool EXCEPT !.calls[th] = call]
    /\ UNCHANGED <<now, password_hash, sessions, api_tokens, todos, issued, response, faults>>

\* The thread has called and waits in pool.lock().
Waiting(th) == pool.calls[th] # NoCall /\ th \notin pool.holders

\* A connection of its own for every call: nothing to wait for.
Lock_OwnConnection(th) ==
    /\ Waiting(th)
    /\ pool' = [holders |-> pool.holders \cup {th},
                calls |-> [pool.calls EXCEPT ![th].entered = todos]]
    /\ UNCHANGED <<now, password_hash, sessions, api_tokens, todos, issued, response, faults>>

\* let conn = pool.lock().unwrap(), at the head of every function of db.rs.
Lock(th) ==
    /\ Waiting(th)
    /\ Unlocked
    /\ pool' = [holders |-> pool.holders \cup {th},
                calls |-> [pool.calls EXCEPT ![th].entered = todos]]
    /\ UNCHANGED <<now, password_hash, sessions, api_tokens, todos, issued, response, faults>>

\* The row create_todo inserts once it has read max_pos.
InsertTodo(title, max_pos) ==
    [id |-> NextRowId(todos), title |-> title, completed |-> FALSE,
     position |-> max_pos + 1, created_at |-> now, updated_at |-> now]

\* The table and the rows read after the next statement of a call.
Ran(th, table, rows) ==
    /\ todos' = table
    /\ pool' = [pool EXCEPT !.calls[th].i = @ + 1, !.calls[th].rows = rows]
    /\ UNCHANGED <<now, password_hash, sessions, api_tokens, issued, response, faults>>

Statement(th) ==
    LET c == pool.calls[th]
    IN /\ th \in pool.holders
       /\ c.i < Statements(c)
       /\ ~c.failed
       /\ ~Failing(c.op)
       /\ \/ /\ c.op = "reorder_todos"
             /\ Ran(th, SetPosition(todos, c.ids[c.i + 1], c.i), <<>>)
          \/ /\ c.op = "list_todos"
             /\ \E rows \in list_todos : Ran(th, todos, rows)
          \/ /\ c.op = "list_open_todos"
             /\ \E rows \in list_open_todos : Ran(th, todos, rows)
          \/ /\ c.op = "get_todo"
             /\ \E rows \in Enumerations(get_todo(c.id)) : Ran(th, todos, rows)
          \/ /\ c.op = "create_todo"
             /\ c.i = 0
             /\ pool' = [pool EXCEPT !.calls[th].i = 1,
                                     !.calls[th].max_pos = MaxPosition(todos)]
             /\ UNCHANGED <<now, password_hash, sessions, api_tokens, todos, issued,
                            response, faults>>
          \/ /\ c.op = "create_todo"
             /\ c.i = 1
             /\ LET row == InsertTodo(<<"a">>, c.max_pos)
                IN Ran(th, todos \cup {row}, <<row>>)
          \/ /\ c.op = "update_todo"
             /\ LET r == update_todo(c.id, {}, c.completed)
                IN \E rows \in Enumerations(r.row) : Ran(th, r.todos, rows)
          \/ /\ c.op = "delete_todo"
             /\ Ran(th, delete_todo(c.id).todos, <<>>)

\* The INSERT of create_session, run when the thread has the mutex: the row
\* gets the expires_at the handler computed and the store's clock as created_at.
InsertSession(th) ==
    LET c == pool.calls[th]
    IN /\ th \in pool.holders
       /\ c.op = "create_session"
       /\ c.i = 0
       /\ sessions' = create_session(c.rows[1]).sessions
       /\ pool' = [pool EXCEPT !.calls[th].i = 1]
       /\ UNCHANGED <<now, password_hash, api_tokens, todos, issued, response, faults>>

\* The failing statement inside a transaction: the writes the call has made
\* are undone.
FailedStatement_RollsBack(th) ==
    LET c == pool.calls[th]
    IN /\ th \in pool.holders
       /\ c.i < Statements(c)
       /\ ~c.failed
       /\ Failing(c.op)
       /\ todos' = c.entered
       /\ pool' = [pool EXCEPT !.calls[th].failed = TRUE]
       /\ UNCHANGED <<now, password_hash, sessions, api_tokens, issued, response, faults>>

\* The next statement of the call fails: conn.execute(...)? or query(...)?
\* leaves the function with the error, and what the earlier statements wrote
\* stays written (no statement of db.rs opens a transaction).
FailedStatement(th) ==
    LET c == pool.calls[th]
    IN /\ th \in pool.holders
       /\ c.i < Statements(c)
       /\ ~c.failed
       /\ Failing(c.op)
       /\ pool' = [pool EXCEPT !.calls[th].failed = TRUE]
       /\ UNCHANGED <<now, password_hash, sessions, api_tokens, todos, issued, response, faults>>

\* The function returns and conn goes out of scope.
Return(th) ==
    /\ th \in pool.holders
    /\ pool.calls[th].i = Statements(pool.calls[th])
    /\ pool' = [holders |-> pool.holders \ {th}, calls |-> [pool.calls EXCEPT ![th] = NoCall]]
    /\ UNCHANGED <<now, password_hash, sessions, api_tokens, todos, issued, response, faults>>

(***************************************************************************)
(* middleware.rs                                                           *)
(***************************************************************************)
\* The comparison written with >=: a session still counts at expires_at.
Unexpired_Inclusive(session) == session.expires_at >= now

\* The comparison of check_session: a fetched session counts while its
\* expires_at lies after the clock.
Unexpired(session) == session.expires_at > now

\* A Cookie header is either not text (to_str fails) or text cut at every ';'
\* into pieces, each piece trimmed and cut at its first '=' into one or two
\* parts (splitn(2, '=')).
BinaryCookieHeader == [kind |-> "binary", pieces |-> <<>>]
CookieHeader(pieces) == [kind |-> "text", pieces |-> pieces]

\* The cookies of one header: the pieces that have a name and a value.
CookiesOf(header) ==
    IF header.kind # "text" THEN <<>>
    ELSE LET kept == SelectSeq(header.pieces, LAMBDA piece : Len(piece) = 2)
         IN [k \in 1..Len(kept) |-> [name |-> kept[k][1], value |-> kept[k][2]]]

\* The iterator cookies of check_session: the cookies of every Cookie header,
\* in the order of the headers.
RECURSIVE ParseCookies(_)
ParseCookies(headers) ==
    IF headers = <<>> THEN <<>>
    ELSE CookiesOf(Head(headers)) \o ParseCookies(Tail(headers))

\* The parts of a request given by its Cookie headers as sent.
PartsOf(cookie_headers, authorization) ==
    [cookies |-> ParseCookies(cookie_headers), authorization |-> authorization,
     cookie_headers |-> cookie_headers]

\* The loop of check_session giving up at the first cookie named session.
RECURSIVE CheckSessionFrom_FirstOnly(_, _)
CheckSessionFrom_FirstOnly(cookies, i) ==
    IF i > Len(cookies) THEN FALSE
    ELSE IF cookies[i].name = "session"
         THEN /\ ~Failing("get_session")
              /\ \E s \in get_session(cookies[i].value) : s.expires_at > now
         ELSE CheckSessionFrom_FirstOnly(cookies, i + 1)

\* The loop of check_session from the i-th cookie on: the first cookie named
\* session whose value fetches an unexpired session ends it with true.  A
\* get_session that fails is passed over (if let Ok(Some(session))).
RECURSIVE CheckSessionFrom(_, _)
CheckSessionFrom(cookies, i) ==
    IF i > Len(cookies) THEN FALSE
    ELSE IF /\ cookies[i].name = "session"
            /\ ~Failing("get_session")
            /\ \E s \in get_session(cookies[i].value) : Unexpired(s)
         THEN TRUE
         ELSE CheckSessionFrom(cookies, i + 1)

check_session(parts) == CheckSessionFrom(parts.cookies, 1)

\* check_bearer_token taking a failed lookup for a token that is not stored.
check_bearer_token_SwallowsError(parts) ==
    LET h == parts.authorization
    IN IF h.kind = "text" /\ h.scheme = "Bearer "
       THEN [lookup |-> TRUE, error |-> FALSE,
             found |-> ~Failing("get_api_token_by_value")
                          /\ get_api_token_by_value(h.rest) # {}]
       ELSE [lookup |-> FALSE, found |-> FALSE, error |-> FALSE]

\* lookup tells whether get_api_token_by_value was called, error whether it
\* failed (the ? of check_bearer_token).
check_bearer_token(parts) ==
    LET h == parts.authorization
    IN IF h.kind = "text" /\ h.scheme = "Bearer "
       THEN IF Failing("get_api_token_by_value")
            THEN [lookup |-> TRUE, found |-> FALSE, error |-> TRUE]
            ELSE [lookup |-> TRUE, found |-> get_api_token_by_value(h.rest) # {},
                  error |-> FALSE]
       ELSE [lookup |-> FALSE, found |-> FALSE, error |-> FALSE]

\* Auth looking the bearer token up before it tries the session cookie.
Auth_BearerFirst(parts) ==
    LET b == check_bearer_token(parts)
    IN IF b.found
       THEN [granted |-> TRUE, by |-> "bearer", lookup |-> TRUE, error |-> FALSE]
       ELSE IF check_session(parts)
            THEN [granted |-> TRUE, by |-> "session", lookup |-> b.lookup, error |-> FALSE]
            ELSE [granted |-> FALSE, by |-> "none", lookup |-> b.lookup, error |-> b.error]

\* impl FromRequestParts for Auth: the session first, then the bearer token.
\* error tells that the rejection is AuthError::Internal, made from the
\* AppError::Database of the token lookup, and not AuthError::Unauthorized.
Auth(parts) ==
    IF check_session(parts)
    THEN [granted |-> TRUE, by |-> "session", lookup |-> FALSE, error |-> FALSE]
    ELSE LET b == check_bearer_token(parts)
         IN IF b.found
            THEN [granted |-> TRUE, by |-> "bearer", lookup |-> TRUE, error |-> FALSE]
            ELSE [granted |-> FALSE, by |-> "none", lookup |-> b.lookup, error |-> b.error]

\* SessionAuth rejecting with AuthError::Internal when the lookup of a
\* session cookie fails.
SessionAuth_SurfacesError(parts) ==
    IF check_session(parts)
    THEN [granted |-> TRUE, by |-> "session", lookup |-> FALSE, error |-> FALSE]
    ELSE [granted |-> FALSE, by |-> "none", lookup |-> FALSE,
          error |-> /\ Failing("get_session")
                    /\ \E i \in 1..Len(parts.cookies) : parts.cookies[i].name = "session"]

\* SessionAuth falling back to the bearer token, as Auth does.
SessionAuth_AcceptsBearer(parts) == Auth(parts)

\* impl FromRequestParts for SessionAuth: the session only.
SessionAuth(parts) ==
    IF check_session(parts)
    THEN [granted |-> TRUE, by |-> "session", lookup |-> FALSE, error |-> FALSE]
    ELSE [granted |-> FALSE, by |-> "none", lookup |-> FALSE, error |-> FALSE]

\* MaybeAuth counting a stored bearer token as well.
MaybeAuth_AcceptsBearer(parts) == Auth(parts).granted

\* impl FromRequestParts for MaybeAuth: never a rejection.
MaybeAuth(parts) == check_session(parts)

(***************************************************************************)
(* error.rs and the response of an exchange                                *)
(***************************************************************************)
\* What a handler reads from the path and the JSON body, after the extractor.
NoArg == [id |-> 0, title |-> {}, completed |-> {}, ids |-> <<>>, password |-> ""]
IdArg(id) == [NoArg EXCEPT !.id = id]

\* rows is the JSON array or object returned, text the lines of a plain-text
\* body, set_cookie the value of a Set-Cookie header for the session cookie.
EmptyBody == [set_cookie |-> {}, rows |-> <<>>, text |-> <<>>, error |-> "", location |-> ""]
Json(rows) == [EmptyBody EXCEPT !.rows = rows]
ErrorBody(message) == [EmptyBody EXCEPT !.error = message]

Exchange(op, parts, arg, auth, status, body) ==
    [op |-> op, parts |-> parts, arg |-> arg, by |-> auth.by, lookup |-> auth.lookup,
     status |-> status, set_cookie |-> body.set_cookie, rows |-> body.rows,
     text |-> body.text, error |-> body.error, location |-> body.location]

\* A handler without an extractor.
Open == [granted |-> TRUE, by |-> "open", lookup |-> FALSE]

NoExchange ==
    Exchange("none", Parts(<<>>, NoHeader), NoArg,
             [granted |-> FALSE, by |-> "none", lookup |-> FALSE], 0, EmptyBody)

\* An answer after which the sessions found expired are gone.
Answer_DropsExpired(op, parts, arg, auth, status, body) ==
    /\ response' = Exchange(op, parts, arg, auth, status, body)
    /\ sessions' = {s \in sessions : s.expires_at > now}
    /\ UNCHANGED <<now, password_hash, api_tokens, todos, issued, pool, faults>>

\* A handler that answers without writing to the store.
Answer(op, parts, arg, auth, status, body) ==
    /\ response' = Exchange(op, parts, arg, auth, status, body)
    /\ UNCHANGED <<now, password_hash, sessions, api_tokens, todos, issued, pool, faults>>

\* A rejection sent only after the handler body has run on the store.
Rejected_AfterHandler(op, parts, auth) ==
    /\ response' = Exchange(op, parts, NoArg, auth, 401, ErrorBody("Unauthorized"))
    /\ todos' = {}
    /\ api_tokens' = {}
    /\ UNCHANGED <<now, password_hash, sessions, issued, pool, faults>>

\* A rejection whose message tells a missing credential from a wrong one.
Rejected_Explains(op, parts, auth) ==
    Answer(op, parts, NoArg, auth, 401,
           ErrorBody(IF parts.cookies = <<>> /\ parts.authorization = NoHeader
                     THEN "Unauthorized" ELSE "Invalid credentials"))

\* The message of an AppError::Database.
StorageError == "storage"

\* impl IntoResponse for AuthError: Unauthorized is 401, Internal is 500 with
\* the message of the error.  The handler body does not run, the path and the
\* JSON body are not read.
Rejected(op, parts, auth) ==
    IF auth.error
    THEN Answer(op, parts, NoArg, auth, 500, ErrorBody(StorageError))
    ELSE Answer(op, parts, NoArg, auth, 401, ErrorBody("Unauthorized"))

(***************************************************************************)
(* handlers/auth.rs                                                        *)
(***************************************************************************)
SessionTtl == 7 * 24 * 60 * 60

\* session_id is what generate_session_id returns; it is drawn only once the
\* password has verified.
login(password, session_id) ==
    LET arg == [NoArg EXCEPT !.password = password]
        parts == Parts(<<>>, NoHeader)
    IN IF ~verify_password(password, password_hash)
       THEN Answer("login", parts, arg, Open, 401, ErrorBody("Unauthorized"))
       ELSE LET session == [id |-> session_id, created_at |-> now,
                            expires_at |-> now + SessionTtl]
                created == create_session(session)
            IN /\ issued' = issued \cup {session_id}
               /\ sessions' = created.sessions
               /\ response' =
                    IF created.ok
                    THEN Exchange("login", parts, arg, Open, 200,
                                  [EmptyBody EXCEPT !.set_cookie = {session_id}])
                    ELSE Exchange("login", parts, arg, Open, 500, ErrorBody("storage"))
               /\ UNCHANGED <<now, password_hash, api_tokens, todos, pool, faults>>

\* login has verified the password, drawn its id, read the clock and built
\* the Session it passes to create_session.
LoginCall(session_id) ==
    [Call("create_session", 0, {}, <<>>) EXCEPT
        !.rows = <<[id |-> session_id, created_at |-> now,
                    expires_at |-> now + SessionTtl]>>]

\* logout that also drops the API tokens.
logout_DropsTokens(parts) ==
    /\ \/ /\ parts.cookies = <<>>
          /\ UNCHANGED sessions
       \/ \E i \in 1..Len(parts.cookies) : sessions' = delete_session(parts.cookies[i].value)
    /\ api_tokens' = {}
    /\ response' = Exchange("logout", parts, NoArg, Open, 200,
                            [EmptyBody EXCEPT !.set_cookie = {""}])
    /\ UNCHANGED <<now, password_hash, todos, issued, pool, faults>>

\* jar.get("session"): the value of a cookie named session, if the request has one.
JarGet(parts) == {parts.cookies[i].value : i \in {j \in 1..Len(parts.cookies) :
                                                    parts.cookies[j].name = "session"}}

logout(parts) ==
    /\ \/ /\ JarGet(parts) = {}
          /\ UNCHANGED sessions
       \/ \E v \in JarGet(parts) : sessions' = delete_session(v)
    /\ response' = Exchange("logout", parts, NoArg, Open, 200,
                            [EmptyBody EXCEPT !.set_cookie = {""}])
    /\ UNCHANGED <<now, password_hash, api_tokens, todos, issued, pool, faults>>

list_tokens(parts) ==
    LET a == SessionAuth(parts)
    IN IF ~a.granted THEN Rejected("list_tokens", parts, a)
       ELSE \E rows \in list_api_tokens :
                Answer("list_tokens", parts, NoArg, a, 200, Json(rows))

\* token_value is what generate_token returns, name the label of the request.
create_token(parts, token_value, name) ==
    LET a == SessionAuth(parts)
    IN IF ~a.granted THEN Rejected("create_token", parts, a)
       ELSE LET created == create_api_token(token_value, name)
            IN /\ issued' = issued \cup {token_value}
               /\ api_tokens' = created.api_tokens
               /\ response' =
                    IF created.ok
                    THEN Exchange("create_token", parts, NoArg, a, 200,
                                  Json(<<CHOOSE r \in created.row : TRUE>>))
                    ELSE Exchange("create_token", parts, NoArg, a, 500, ErrorBody("storage"))
               /\ UNCHANGED <<now, password_hash, sessions, todos, pool, faults>>

revoke_token(parts, id) ==
    LET a == SessionAuth(parts)
    IN IF ~a.granted THEN Rejected("revoke_token", parts, a)
       ELSE LET d == delete_api_token(id)
            IN /\ api_tokens' = d.api_tokens
               /\ response' =
                    IF d.deleted
                    THEN Exchange("revoke_token", parts, IdArg(id), a, 204, EmptyBody)
                    ELSE Exchange("revoke_token", parts, IdArg(id), a, 404,
                                  ErrorBody("Not found"))
               /\ UNCHANGED <<now, password_hash, sessions, todos, issued, pool, faults>>

(***************************************************************************)
(* handlers/api.rs.  A title is a sequence of characters.                  *)
(***************************************************************************)
RECURSIVE TrimStart(_)
TrimStart(s) == IF s # <<>> /\ Head(s) = " " THEN TrimStart(Tail(s)) ELSE s

RECURSIVE TrimEnd(_)
TrimEnd(s) == IF s # <<>> /\ s[Len(s)] = " " THEN TrimEnd(SubSeq(s, 1, Len(s) - 1)) ELSE s

\* No trimming at all: the title is tested as it came.
trim_Nothing(s) == s

\* str::trim
trim(s) == TrimEnd(TrimStart(s))

\* A handler that answers after writing the todos table.
AnswerTodos(op, parts, arg, auth, status, body, table) ==
    /\ todos' = table
    /\ response' = Exchange(op, parts, arg, auth, status, body)
    /\ UNCHANGED <<now, password_hash, sessions, api_tokens, issued, pool, faults>>

list_all_todos(parts) ==
    LET a == Auth(parts)
    IN IF ~a.granted THEN Rejected("list_all_todos", parts, a)
       ELSE \E rows \in list_todos :
                Answer("list_all_todos", parts, NoArg, a, 200, Json(rows))

create_new_todo(parts, title) ==
    LET a == Auth(parts)
        arg == [NoArg EXCEPT !.title = {title}]
    IN IF ~a.granted THEN Rejected("create_new_todo", parts, a)
       ELSE IF trim(title) = <<>>
            THEN Answer("create_new_todo", parts, arg, a, 400,
                        ErrorBody("Title cannot be empty"))
            ELSE LET c == create_todo(title)
                 IN AnswerTodos("create_new_todo", parts, arg, a, 201,
                                Json(<<c.row>>), c.todos)

get_single_todo(parts, id) ==
    LET a == Auth(parts)
    IN IF ~a.granted THEN Rejected("get_single_todo", parts, a)
       ELSE IF get_todo(id) = {}
            THEN Answer("get_single_todo", parts, IdArg(id), a, 404, ErrorBody("Not found"))
            ELSE Answer("get_single_todo", parts, IdArg(id), a, 200,
                        Json(<<CHOOSE t \in get_todo(id) : TRUE>>))

update_existing_todo(parts, id, title, completed) ==
    LET a == Auth(parts)
        arg == [NoArg EXCEPT !.id = id, !.title = title, !.completed = completed]
    IN IF ~a.granted THEN Rejected("update_existing_todo", parts, a)
       ELSE IF \E t \in title : trim(t) = <<>>
            THEN Answer("update_existing_todo", parts, arg, a, 400,
                        ErrorBody("Title cannot be empty"))
            ELSE LET u == update_todo(id, title, completed)
                 IN IF u.row = {}
                    THEN AnswerTodos("update_existing_todo", parts, arg, a, 404,
                                     ErrorBody("Not found"), u.todos)
                    ELSE AnswerTodos("update_existing_todo", parts, arg, a, 200,
                                     Json(<<CHOOSE t \in u.row : TRUE>>), u.todos)

delete_existing_todo(parts, id) ==
    LET a == Auth(parts)
    IN IF ~a.granted THEN Rejected("delete_existing_todo", parts, a)
       ELSE LET d == delete_todo(id)
            IN IF d.deleted
               THEN AnswerTodos("delete_existing_todo", parts, IdArg(id), a, 204,
                                EmptyBody, d.todos)
               ELSE AnswerTodos("delete_existing_todo", parts, IdArg(id), a, 404,
                                ErrorBody("Not found"), d.todos)

\* reorder answering 404 and writing nothing when an id names no task.
reorder_RejectsUnknownIds(parts, ids) ==
    LET a == Auth(parts)
        arg == [NoArg EXCEPT !.ids = ids]
    IN IF ~a.granted THEN Rejected("reorder", parts, a)
       ELSE IF \E i \in 1..Len(ids) : \A t \in todos : t.id # ids[i]
            THEN Answer("reorder", parts, arg, a, 404, ErrorBody("Not found"))
            ELSE LET table == reorder_todos(ids)
                 IN \E rows \in OrderedByPosition(table) :
                        AnswerTodos("reorder", parts, arg, a, 200, Json(rows), table)

\* reorder_todos, then list_todos on the table it left.
reorder(parts, ids) ==
    LET a == Auth(parts)
        arg == [NoArg EXCEPT !.ids = ids]
    IN IF ~a.granted THEN Rejected("reorder", parts, a)
       ELSE LET table == reorder_todos(ids)
            IN \E rows \in OrderedByPosition(table) :
                   AnswerTodos("reorder", parts, arg, a, 200, Json(rows), table)

\* The handler that calls each todo function of db.rs.
HandlerOf ==
    [list_todos |-> "list_all_todos", create_todo |-> "create_new_todo",
     get_todo |-> "get_single_todo", update_todo |-> "update_existing_todo",
     delete_todo |-> "delete_existing_todo", reorder_todos |-> "reorder",
     list_open_todos |-> "plain_text_todos"]

\* The request a handler on a runtime thread serves: it has passed Auth.
Admitted == [granted |-> TRUE, by |-> "session", lookup |-> FALSE, error |-> FALSE]

\* The error path leaving the guard behind: the mutex stays taken after the
\* function has returned its error.
Raise_LeaksGuard(th) ==
    LET c == pool.calls[th]
    IN /\ th \in pool.holders
       /\ c.failed
       /\ pool' = [pool EXCEPT !.calls[th] = NoCall]
       /\ response' = Exchange(HandlerOf[c.op], Parts(<<>>, NoHeader),
                               [NoArg EXCEPT !.id = c.id, !.completed = c.completed,
                                             !.ids = c.ids],
                               Admitted, 500, ErrorBody(StorageError))
       /\ UNCHANGED <<now, password_hash, sessions, api_tokens, todos, issued, faults>>

\* The call has failed: the function returns the AppError::Database made of
\* the rusqlite error, conn goes out of scope, and the ? of the handler turns
\* the error into the response, 500 with its message.
Raise(th) ==
    LET c == pool.calls[th]
    IN /\ th \in pool.holders
       /\ c.failed
       /\ pool' = [holders |-> pool.holders \ {th},
                   calls |-> [pool.calls EXCEPT ![th] = NoCall]]
       /\ response' = Exchange(HandlerOf[c.op], Parts(<<>>, NoHeader),
                               [NoArg EXCEPT !.id = c.id, !.completed = c.completed,
                                             !.ids = c.ids],
                               Admitted, 500, ErrorBody(StorageError))
       /\ UNCHANGED <<now, password_hash, sessions, api_tokens, todos, issued, faults>>

(***************************************************************************)
(* A request to create_new_todo taken call by call: the extractor Auth     *)
(* calls get_session or get_api_token_by_value, which takes the mutex,     *)
(* selects and returns; the handler then calls create_todo, which takes    *)
(* the mutex again.  Other threads log out and revoke in between.          *)
(***************************************************************************)
Lookups == {"get_session", "get_api_token_by_value"}
Deletes == {"delete_session", "delete_api_token"}

\* A call of db.rs about a session id or a token value.
CredCall(op, cred) == [Call(op, 0, {}, <<>>) EXCEPT !.cred = cred]

\* The SELECT of get_session or get_api_token_by_value.
Select(th) ==
    LET c == pool.calls[th]
        found == IF c.op = "get_session" THEN get_session(c.cred)
                 ELSE get_api_token_by_value(c.cred)
    IN /\ th \in pool.holders
       /\ c.op \in Lookups
       /\ c.i = 0
       /\ pool' = [pool EXCEPT !.calls[th].i = 1,
                               !.calls[th].rows = IF found = {} THEN <<>>
                                                  ELSE <<CHOOSE r \in found : TRUE>>]
       /\ UNCHANGED <<now, password_hash, sessions, api_tokens, todos, issued, response, faults>>

\* What the lookup returned lets the request in: a session with
\* expires_at > now (check_session), a token row (check_bearer_token).
LetsIn(c) ==
    /\ c.rows # <<>>
    /\ c.op = "get_session" => c.rows[1].expires_at > now

\* The extractor keeping the connection for the handler: one acquisition for
\* the check and the operation.
Admit_KeepsConnection(th) ==
    LET c == pool.calls[th]
    IN /\ th \in pool.holders
       /\ c.op \in Lookups
       /\ c.i = 1
       /\ LetsIn(c)
       /\ pool' = [pool EXCEPT
                      !.calls[th] = [CredCall("create_todo", c.cred) EXCEPT !.entered = todos]]
       /\ UNCHANGED <<now, password_hash, sessions, api_tokens, todos, issued, response, faults>>

\* The lookup returns, conn goes out of scope, Auth returns Ok(Auth) and
\* create_new_todo calls create_todo, which waits in pool.lock().
Admit(th) ==
    LET c == pool.calls[th]
    IN /\ th \in pool.holders
       /\ c.op \in Lookups
       /\ c.i = 1
       /\ LetsIn(c)
       /\ pool' = [holders |-> pool.holders \ {th},
                   calls |-> [pool.calls EXCEPT ![th] = CredCall("create_todo", c.cred)]]
       /\ UNCHANGED <<now, password_hash, sessions, api_tokens, todos, issued, response, faults>>

\* The lookup returns, conn goes out of scope and Auth returns
\* Err(AuthError::Unauthorized): the request carried this credential only.
Reject(th) ==
    LET c == pool.calls[th]
        parts == IF c.op = "get_session" THEN Parts(<<SessionCookie(c.cred)>>, NoHeader)
                 ELSE Parts(<<>>, Bearer(c.cred))
    IN /\ th \in pool.holders
       /\ c.op \in Lookups
       /\ c.i = 1
       /\ ~LetsIn(c)
       /\ pool' = [holders |-> pool.holders \ {th},
                   calls |-> [pool.calls EXCEPT ![th] = NoCall]]
       /\ response' = Exchange("create_new_todo", parts, NoArg,
                               [granted |-> FALSE, by |-> "none",
                                lookup |-> c.op = "get_api_token_by_value"],
                               401, ErrorBody("Unauthorized"))
       /\ UNCHANGED <<now, password_hash, sessions, api_tokens, todos, issued, faults>>

\* The DELETE of delete_session (logout) or delete_api_token (revoke_token).
Delete(th) ==
    LET c == pool.calls[th]
    IN /\ th \in pool.holders
       /\ c.op \in Deletes
       /\ c.i = 0
       /\ sessions' = IF c.op = "delete_session" THEN delete_session(c.cred) ELSE sessions
       /\ api_tokens' = IF c.op = "delete_api_token" THEN delete_api_token(c.id).api_tokens
                        ELSE api_tokens
       /\ pool' = [pool EXCEPT !.calls[th].i = 1]
       /\ UNCHANGED <<now, password_hash, todos, issued, response, faults>>

plain_text_todos(parts) ==
    LET a == Auth(parts)
    IN IF ~a.granted THEN Rejected("plain_text_todos", parts, a)
       ELSE \E rows \in list_open_todos :
                Answer("plain_text_todos", parts, NoArg, a, 200,
                       [EmptyBody EXCEPT !.text = [i \in 1..Len(rows) |-> rows[i].title]])

(***************************************************************************)
(* handlers/web.rs, with an empty base path                                *)
(***************************************************************************)
Page(authenticated) ==
    [granted |-> TRUE, by |-> IF authenticated THEN "session" ELSE "none", lookup |-> FALSE]

index(parts) ==
    LET authenticated == MaybeAuth(parts)
    IN IF ~authenticated
       THEN Answer("index", parts, NoArg, Page(authenticated), 303,
                   [EmptyBody EXCEPT !.location = "/login"])
       ELSE Answer("index", parts, NoArg, Page(authenticated), 200, EmptyBody)

login_page(parts) ==
    LET authenticated == MaybeAuth(parts)
    IN IF authenticated
       THEN Answer("login_page", parts, NoArg, Page(authenticated), 303,
                   [EmptyBody EXCEPT !.location = "/"])
       ELSE Answer("login_page", parts, NoArg, Page(authenticated), 200, EmptyBody)

(***************************************************************************)
(* main.rs and the clock                                                   *)
(***************************************************************************)
\* The process starts (again) on the database file it finds: the password is
\* hashed under a fresh salt and the expired sessions are swept; a sweep that
\* fails is dropped (let _ =) and the start goes on.
main(salt) ==
    /\ password_hash' = hash_password(DONEZO_PASSWORD, salt)
    /\ sessions' = IF Failing("cleanup_expired_sessions") THEN sessions
                   ELSE cleanup_expired_sessions
    /\ UNCHANGED <<now, api_tokens, todos, issued, response, pool, faults>>

\* d seconds pass.
Tick(d) ==
    /\ now' = now + d
    /\ UNCHANGED <<password_hash, sessions, api_tokens, todos, issued, response, pool, faults>>

\* The client receives the response of the exchange.
Deliver ==
    /\ response # NoExchange
    /\ response' = NoExchange
    /\ UNCHANGED <<now, password_hash, sessions, api_tokens, todos, issued, pool, faults>>

\* The first start, on an empty database file.
Init ==
    /\ now = 0
    /\ password_hash \in {hash_password(DONEZO_PASSWORD, salt) : salt \in Salts}
    /\ sessions = {}
    /\ api_tokens = {}
    /\ todos = {}
    /\ issued = {}
    /\ response = NoExchange
    /\ pool = [holders |-> {}, calls |-> [th \in Threads |-> NoCall]]
    /\ faults = {}

(***************************************************************************)
(* The environment.  generate_token draws 64 characters out of 62: a       *)
(* repeat of an earlier draw is taken not to happen.                       *)
(***************************************************************************)
Fresh(v) == v \notin issued

\* The clock is followed over the seconds 0..MaxSkew and, one session lifetime
\* later, SessionTtl..SessionTtl + MaxSkew.
ClockValues == (0..MaxSkew) \cup (SessionTtl..(SessionTtl + MaxSkew))

Options(S) == {{}} \cup {{x} : x \in S}

\* No exchange is under way: the model takes one request at a time.
Idle == response = NoExchange

\* Spec: every endpoint and every kind of credential, on a task list of at
\* most one row that is written at the current second.
CookieLists == {<<>>} \cup {<<SessionCookie(s)>> : s \in SessionIds}
Headers == {NoHeader, TextHeader("bearer ", "t1")} \cup {Bearer(t) : t \in TokenValues}
Requests == {Parts(c, h) : c \in CookieLists, h \in Headers}
Cookies == {Parts(c, NoHeader) : c \in CookieLists}
TokenNames == {{}}
Titles == {<<"a">>}
TodoIds == {1}
TokenIds == 1..Cardinality(TokenValues)
IdLists == {<<>>} \cup {<<i>> : i \in TodoIds}

Next ==
    \/ \E d \in {1, SessionTtl} :
          Idle /\ now + d \in ClockValues /\ todos = {} /\ Tick(d)
    \/ \E salt \in Salts : Idle /\ main(salt)
    \/ Deliver
    \/ \E password \in Passwords, id \in SessionIds :
          /\ Idle
          /\ verify_password(password, password_hash) => Fresh(id)
          /\ login(password, id)
    \/ \E parts \in Cookies : Idle /\ logout(parts)
    \/ \E parts \in Requests : Idle /\ list_tokens(parts)
    \/ \E parts \in Requests, t \in TokenValues, name \in TokenNames :
          /\ Idle
          /\ SessionAuth(parts).granted => Fresh(t)
          /\ create_token(parts, t, name)
    \/ \E parts \in Requests, id \in TokenIds : Idle /\ revoke_token(parts, id)
    \/ \E parts \in Requests : Idle /\ list_all_todos(parts)
    \/ \E parts \in Requests, title \in Titles :
          Idle /\ NextRowId(todos) \in TodoIds /\ create_new_todo(parts, title)
    \/ \E parts \in Requests, id \in TodoIds : Idle /\ get_single_todo(parts, id)
    \/ \E parts \in Requests, id \in TodoIds, completed \in Options({TRUE}) :
          Idle /\ update_existing_todo(parts, id, {}, completed)
    \/ \E parts \in Requests, id \in TodoIds : Idle /\ delete_existing_todo(parts, id)
    \/ \E parts \in Requests, ids \in IdLists : Idle /\ reorder(parts, ids)
    \/ \E parts \in Requests : Idle /\ plain_text_todos(parts)
    \/ \E parts \in Requests : Idle /\ index(parts)
    \/ \E parts \in Requests : Idle /\ login_page(parts)

Spec == Init /\ [][Next]_vars

\* SpecTodo: the task list under every todo endpoint, with up to three
\* rows, for a client that is logged in or presents nothing.  The clock stands.
ListRequests == {Parts(c, NoHeader) : c \in {<<>>, <<SessionCookie("s1")>>}}
ListTitles == {<<"a">>}
ListTodoIds == {1, 2, 3}

\* The sequences over S of length at most n.
RECURSIVE SeqsUpTo(_, _)
SeqsUpTo(S, n) ==
    IF n = 0 THEN {<<>>}
    ELSE LET shorter == SeqsUpTo(S, n - 1)
         IN shorter \cup {Append(q, x) : q \in shorter, x \in S}

ListIdLists == SeqsUpTo(ListTodoIds, MaxReorderLen)

NextTodo ==
    \/ Deliver
    \/ \E password \in Passwords :
          /\ Idle
          /\ verify_password(password, password_hash) => Fresh("s1")
          /\ login(password, "s1")
    \/ \E parts \in ListRequests : Idle /\ list_all_todos(parts)
    \/ \E parts \in ListRequests, title \in ListTitles :
          Idle /\ NextRowId(todos) \in ListTodoIds /\ create_new_todo(parts, title)
    \/ \E parts \in ListRequests, id \in ListTodoIds : Idle /\ get_single_todo(parts, id)
    \/ \E parts \in ListRequests, id \in ListTodoIds,
          title \in Options(ListTitles), completed \in Options(BOOLEAN) :
          Idle /\ update_existing_todo(parts, id, title, completed)
    \/ \E parts \in ListRequests, id \in ListTodoIds :
          Idle /\ delete_existing_todo(parts, id)
    \/ \E parts \in ListRequests, ids \in ListIdLists : Idle /\ reorder(parts, ids)
    \/ \E parts \in ListRequests : Idle /\ plain_text_todos(parts)

SpecTodo == Init /\ [][NextTodo]_vars

\* SpecOrder: the order of a task list of up to three rows under create,
\* delete, reorder and list alone, for reorder requests of up to MaxOrderLen ids.
OrderRequests == {Parts(<<SessionCookie("s1")>>, NoHeader)}
OrderTodoIds == {1, 2, 3}
OrderIdLists == SeqsUpTo(OrderTodoIds, MaxOrderLen)

NextOrder ==
    \/ Deliver
    \/ Idle /\ Fresh("s1") /\ login(DONEZO_PASSWORD, "s1")
    \/ \E parts \in OrderRequests : Idle /\ list_all_todos(parts)
    \/ \E parts \in OrderRequests, title \in ListTitles :
          Idle /\ NextRowId(todos) \in OrderTodoIds /\ create_new_todo(parts, title)
    \/ \E parts \in OrderRequests, id \in OrderTodoIds :
          Idle /\ delete_existing_todo(parts, id)
    \/ \E parts \in OrderRequests, ids \in OrderIdLists : Idle /\ reorder(parts, ids)

SpecOrder == Init /\ [][NextOrder]_vars

\* SpecEdit: creating, updating, reading and deleting tasks while the clock
\* runs through the seconds 0..MaxEditClock, with titles that are empty, blank,
\* plain and padded.
EditTitles == {<<>>, <<" ">>, <<"a">>, <<" ", "b">>}
EditTodoIds == {1, 2}

NextEdit ==
    \/ Deliver
    \/ Idle /\ now < MaxEditClock /\ Tick(1)
    \/ Idle /\ Fresh("s1") /\ login(DONEZO_PASSWORD, "s1")
    \/ \E parts \in OrderRequests, title \in EditTitles :
          Idle /\ NextRowId(todos) \in EditTodoIds /\ create_new_todo(parts, title)
    \/ \E parts \in OrderRequests, id \in EditTodoIds : Idle /\ get_single_todo(parts, id)
    \/ \E parts \in OrderRequests, id \in EditTodoIds,
          title \in Options(EditTitles), completed \in Options(BOOLEAN) :
          Idle /\ update_existing_todo(parts, id, title, completed)
    \/ \E parts \in OrderRequests, id \in EditTodoIds :
          Idle /\ delete_existing_todo(parts, id)

SpecEdit == Init /\ [][NextEdit]_vars

\* SpecFrame: what reorder and delete leave alone, on a table of up to two
\* rows with different titles, some completed, while the clock runs; the ids a
\* request names are those of the rows and one that names no row.
FrameTodoIds == {1, 2, 3}
FrameTitles == {<<"a">>, <<"b">>}

NextFrame ==
    \/ Deliver
    \/ Idle /\ now < MaxEditClock /\ Tick(1)
    \/ Idle /\ Fresh("s1") /\ login(DONEZO_PASSWORD, "s1")
    \/ \E parts \in OrderRequests : Idle /\ list_all_todos(parts)
    \/ \E parts \in OrderRequests, title \in FrameTitles :
          Idle /\ NextRowId(todos) \in EditTodoIds /\ create_new_todo(parts, title)
    \/ \E parts \in OrderRequests, id \in EditTodoIds :
          Idle /\ update_existing_todo(parts, id, {}, {TRUE})
    \/ \E parts \in OrderRequests, id \in FrameTodoIds :
          Idle /\ delete_existing_todo(parts, id)
    \/ \E parts \in OrderRequests, ids \in SeqsUpTo(FrameTodoIds, MaxReorderLen) :
          Idle /\ reorder(parts, ids)

SpecFrame == Init /\ [][NextFrame]_vars

\* SpecPlain: the JSON and the plain-text listing of up to two tasks with
\* different titles, some completed, in the orders reorder gives them.
PlainTitles == {<<"a">>, <<"b">>}

NextPlain ==
    \/ Deliver
    \/ Idle /\ Fresh("s1") /\ login(DONEZO_PASSWORD, "s1")
    \/ \E parts \in OrderRequests : Idle /\ list_all_todos(parts)
    \/ \E parts \in OrderRequests : Idle /\ plain_text_todos(parts)
    \/ \E parts \in OrderRequests, title \in PlainTitles :
          Idle /\ NextRowId(todos) \in EditTodoIds /\ create_new_todo(parts, title)
    \/ \E parts \in OrderRequests, id \in EditTodoIds, completed \in BOOLEAN :
          Idle /\ update_existing_todo(parts, id, {}, {completed})
    \/ \E parts \in OrderRequests, ids \in SeqsUpTo(EditTodoIds, MaxReorderLen) :
          Idle /\ reorder(parts, ids)

SpecPlain == Init /\ [][NextPlain]_vars

\* SpecCalls: the calls into db.rs on the todos table from the threads of the
\* runtime, for a table of up to two rows.
CallTodoIds == {1, 2}
CallIdLists == SeqsUpTo(CallTodoIds, MaxReorderLen)
Calls ==
    {Call(op, 0, {}, <<>>) : op \in {"list_todos", "list_open_todos"}}
      \cup {Call(op, id, {}, <<>>) : op \in {"get_todo", "delete_todo"}, id \in CallTodoIds}
      \cup {Call("update_todo", id, {TRUE}, <<>>) : id \in CallTodoIds}
      \cup {Call("reorder_todos", 0, {}, ids) : ids \in CallIdLists}

\* The ids create_todo may give out: one more than the calls name, so that a
\* create can wait behind another on a table that already has a row.
CreatedTodoIds == {1, 2, 3}

\* The create_todo calls under way.
Creating == {th \in Threads : pool.calls[th].op = "create_todo"}

NextCalls ==
    \/ \E th \in Threads, call \in Calls : Begin(th, call)
    \/ \E th \in Threads :
          /\ NextRowId(todos) + Cardinality(Creating) \in CreatedTodoIds
          /\ Begin(th, Call("create_todo", 0, {}, <<>>))
    \/ \E th \in Threads : Lock(th)
    \/ \E th \in Threads : Statement(th)
    \/ \E th \in Threads : Return(th)

SpecCalls == Init /\ [][NextCalls]_vars

\* SpecCookies: the three extractors on requests with one Cookie header of up
\* to MaxCookiesPerHeader pieces or two Cookie headers of at most one piece
\* each, while sessions are created and one of them expires.
CookiePieces == {<<"session", "s1">>, <<"session", "s2">>, <<"theme", "s2">>, <<"session">>}
CookieHeaders ==
    {CookieHeader(pieces) : pieces \in SeqsUpTo(CookiePieces, MaxCookiesPerHeader)}
      \cup {BinaryCookieHeader}
ShortCookieHeaders == {h \in CookieHeaders : Len(h.pieces) <= 1}
CookieRequests ==
    {PartsOf(headers, NoHeader) :
        headers \in {<<>>} \cup {<<h>> : h \in CookieHeaders}
                      \cup {<<g, h>> : g \in ShortCookieHeaders, h \in ShortCookieHeaders}}

NextCookies ==
    \/ Deliver
    \/ Idle /\ now = 0 /\ Tick(SessionTtl)
    \/ \E id \in SessionIds : Idle /\ Fresh(id) /\ login(DONEZO_PASSWORD, id)
    \/ \E parts \in CookieRequests : Idle /\ index(parts)
    \/ \E parts \in CookieRequests : Idle /\ list_tokens(parts)
    \/ \E parts \in CookieRequests : Idle /\ list_all_todos(parts)

SpecCookies == Init /\ [][NextCookies]_vars

\* SpecLogin: logins on two threads taken statement by statement, from the
\* handler's reading of the clock to the INSERT under the mutex, while the
\* clock runs on.
LoggingIn == {pool.calls[th].rows[1].id : th \in {t \in Threads : pool.calls[t].op = "create_session"}}

NextLogin ==
    \/ \E d \in {1, SessionTtl} : now + d \in ClockValues /\ Tick(d)
    \/ \E th \in Threads, id \in SessionIds :
          /\ id \notin LoggingIn
          /\ get_session(id) = {}
          /\ Begin(th, LoginCall(id))
    \/ \E th \in Threads : Lock(th)
    \/ \E th \in Threads : InsertSession(th)
    \/ \E th \in Threads : Return(th)

SpecLogin == Init /\ [][NextLogin]_vars

\* SpecCollide: logins and token creations whose generator may draw a value
\* again, one that is stored at the time included.
NextCollide ==
    \/ Deliver
    \/ Idle /\ now = 0 /\ Tick(1)
    \/ \E password \in Passwords, id \in SessionIds : Idle /\ login(password, id)
    \/ \E parts \in Cookies : Idle /\ logout(parts)
    \/ \E parts \in Cookies, token \in TokenValues, name \in TokenNames :
          Idle /\ create_token(parts, token, name)
    \/ \E parts \in Cookies, id \in TokenIds : Idle /\ revoke_token(parts, id)

SpecCollide == Init /\ [][NextCollide]_vars

\* SpecRace: requests to create a task that present the session s1 or the
\* token t1, taken call by call on two threads, while the other thread logs
\* s1 out or revokes t1.
Serving == {th \in Threads : pool.calls[th].op \in Lookups \cup {"create_todo"}}

NextRace ==
    \/ Deliver
    \/ Idle /\ Fresh("s1") /\ login(DONEZO_PASSWORD, "s1")
    \/ /\ Idle
       /\ Fresh("t1")
       /\ SessionAuth(Parts(<<SessionCookie("s1")>>, NoHeader)).granted
       /\ create_token(Parts(<<SessionCookie("s1")>>, NoHeader), "t1", {})
    \/ \E th \in Threads :
          /\ NextRowId(todos) + Cardinality(Serving) \in CallTodoIds
          /\ \/ Begin(th, CredCall("get_session", "s1"))
             \/ Begin(th, CredCall("get_api_token_by_value", "t1"))
    \/ \E th \in Threads : Begin(th, CredCall("delete_session", "s1"))
    \/ \E th \in Threads : Begin(th, Call("delete_api_token", 1, {}, <<>>))
    \/ \E th \in Threads : Lock(th)
    \/ \E th \in Threads : Select(th)
    \/ \E th \in Threads : Admit(th)
    \/ \E th \in Threads : Idle /\ Reject(th)
    \/ \E th \in Threads : Delete(th)
    \/ \E th \in Threads : Statement(th)
    \/ \E th \in Threads : pool.calls[th].op \notin Lookups /\ Return(th)

SpecRace == Init /\ [][NextRace]_vars

\* SpecFault: the three extractors while the lookups of db.rs fail and
\* recover, for every shape of Authorization header.
LookupFaults == SUBSET {"get_session", "get_api_token_by_value"}
FaultHeaders ==
    {NoHeader, BinaryHeader, TextHeader("bearer ", "t1"), Bearer("t1"), Bearer("t2")}
FaultRequests ==
    {Parts(c, h) : c \in {<<>>, <<SessionCookie("s1")>>}, h \in FaultHeaders}

\* The storage starts or stops failing for the functions in F.
Break(F) ==
    /\ faults' = F
    /\ UNCHANGED <<now, password_hash, sessions, api_tokens, todos, issued, response, pool>>

NextFault ==
    \/ Deliver
    \/ \E F \in LookupFaults : Idle /\ F # faults /\ Break(F)
    \/ Idle /\ Fresh("s1") /\ login(DONEZO_PASSWORD, "s1")
    \/ \E parts \in FaultRequests :
          /\ Idle
          /\ SessionAuth(parts).granted => Fresh("t1")
          /\ create_token(parts, "t1", {})
    \/ \E parts \in FaultRequests : Idle /\ list_tokens(parts)
    \/ \E parts \in FaultRequests : Idle /\ list_all_todos(parts)
    \/ \E parts \in FaultRequests : Idle /\ index(parts)

SpecFault == Init /\ [][NextFault]_vars

\* SpecSweep: the process is started again and again, each time under a salt
\* it did not have before, while sessions are created and expire and the sweep
\* works or fails; nothing but the sweep deletes a session here.
SweepSalts == {"salt1", "salt2"}
SweepFaults == SUBSET {"cleanup_expired_sessions"}

NextSweep ==
    \/ Deliver
    \/ \E d \in {1, SessionTtl} : Idle /\ now + d \in ClockValues /\ Tick(d)
    \/ \E F \in SweepFaults : Idle /\ F # faults /\ Break(F)
    \/ \E salt \in SweepSalts : Idle /\ salt # password_hash.salt /\ main(salt)
    \/ \E id \in SessionIds : Idle /\ Fresh(id) /\ login(DONEZO_PASSWORD, id)
    \/ \E parts \in Cookies : Idle /\ list_all_todos(parts)
    \/ \E parts \in Cookies : Idle /\ list_tokens(parts)
    \/ \E parts \in Cookies : Idle /\ index(parts)

SpecSweep == Init /\ [][NextSweep]_vars

\* SpecBreak: reorders, listings and creates on two threads while the
\* statements of reorder_todos start and stop failing at any moment, within
\* the loop of a reorder included.
BreakFaults == SUBSET {"reorder_todos"}
BreakCalls ==
    {Call("list_todos", 0, {}, <<>>)}
      \cup {Call("reorder_todos", 0, {}, ids) : ids \in CallIdLists}

NextBreak ==
    \/ Deliver
    \/ \E F \in BreakFaults : F # faults /\ Break(F)
    \/ \E th \in Threads, call \in BreakCalls : Begin(th, call)
    \/ \E th \in Threads :
          /\ NextRowId(todos) + Cardinality(Creating) \in CallTodoIds
          /\ Begin(th, Call("create_todo", 0, {}, <<>>))
    \/ \E th \in Threads : Lock(th)
    \/ \E th \in Threads : Statement(th)
    \/ \E th \in Threads : FailedStatement(th)
    \/ \E th \in Threads : Return(th)
    \/ \E th \in Threads : Idle /\ Raise(th)

SpecBreak == Init /\ [][NextBreak]_vars

\* SpecFair: updates, a reorder, listings and creates on two threads while
\* the statements of update_todo start and stop failing, under a mutex that
\* is fair: a thread that waits in pool.lock() while the mutex is free again
\* and again gets it, a thread that holds it runs on, and responses are
\* delivered.
FairFaults == SUBSET {"update_todo"}
FairCalls ==
    {Call("list_todos", 0, {}, <<>>), Call("reorder_todos", 0, {}, <<2, 1>>)}
      \cup {Call("update_todo", id, {TRUE}, <<>>) : id \in CallTodoIds}

NextFair ==
    \/ Deliver
    \/ \E F \in FairFaults : F # faults /\ Break(F)
    \/ \E th \in Threads, call \in FairCalls : Begin(th, call)
    \/ \E th \in Threads :
          /\ NextRowId(todos) + Cardinality(Creating) \in CallTodoIds
          /\ Begin(th, Call("create_todo", 0, {}, <<>>))
    \/ \E th \in Threads : Lock(th)
    \/ \E th \in Threads : Statement(th)
    \/ \E th \in Threads : FailedStatement(th)
    \/ \E th \in Threads : Return(th)
    \/ \E th \in Threads : Idle /\ Raise(th)

Fairness ==
    /\ WF_vars(Deliver)
    /\ \A th \in Threads :
          /\ SF_vars(Lock(th))
          /\ WF_vars(Statement(th) \/ FailedStatement(th))
          /\ WF_vars(Return(th))
          /\ WF_vars(Idle /\ Raise(th))

SpecFair == Init /\ [][NextFair]_vars /\ Fairness

(***************************************************************************)
(* Vocabulary of the properties                                            *)
(***************************************************************************)
\* The endpoints behind Auth, and those behind SessionAuth.
AuthOps ==
    {"list_all_todos", "create_new_todo", "get_single_todo", "update_existing_todo",
     "delete_existing_todo", "reorder", "plain_text_todos"}
SessionOps == {"list_tokens", "create_token", "revoke_token"}

\* The request carries a cookie named session whose value is the id of a stored
\* session with expires_at > now.
ValidSessionCookie(parts) ==
    \E i \in 1..Len(parts.cookies) :
        /\ parts.cookies[i].name = "session"
        /\ \E s \in sessions : s.id = parts.cookies[i].value /\ s.expires_at > now

\* The request carries Authorization: Bearer <t> with t the token of a stored row.
StoredBearer(parts) ==
    /\ parts.authorization.kind = "text"
    /\ parts.authorization.scheme = "Bearer "
    /\ \E t \in api_tokens : t.token = parts.authorization.rest

\* The request presents the one cookie session=s and nothing else.
OnlyCookie(parts, s) == parts = Parts(<<SessionCookie(s)>>, NoHeader)

\* The request presents Authorization: Bearer t and nothing else.
OnlyBearer(parts, t) == parts = Parts(<<>>, Bearer(t))

\* The step is a handler answering a request.
Exchanged == response = NoExchange /\ response' # NoExchange

SessionRow(id) == \E s \in sessions : s.id = id
TokenRow(t) == \E r \in api_tokens : r.token = t

(***************************************************************************)
(* C1.  Auth grants a request if and only if it carries a session cookie   *)
(* naming a stored session with expires_at > now or, that failing, a       *)
(* Bearer header naming a stored token; a request granted by its session   *)
(* cookie causes no lookup in the token store, and a rejection is a 401.   *)
(***************************************************************************)
C1_AuthGrantsIffSessionOrBearer ==
    response.op \in AuthOps =>
        /\ response.status # 401
             <=> (ValidSessionCookie(response.parts) \/ StoredBearer(response.parts))
        /\ ValidSessionCookie(response.parts)
             => (response.by = "session" /\ ~response.lookup)
        /\ ~ValidSessionCookie(response.parts) /\ StoredBearer(response.parts)
             => (response.by = "bearer" /\ response.lookup)
        /\ response.status = 401 <=> response.by = "none"

\* A request with the cookie of an expired or deleted session is granted by
\* the bearer token it also carries.
C1_Witness ==
    /\ response.op \in AuthOps
    /\ response.by = "bearer"
    /\ response.parts.cookies # <<>>
    /\ response.status # 401

(***************************************************************************)
(* C2.  SessionAuth grants exactly the requests with a valid session       *)
(* cookie: a stored bearer token without one is answered 401, and the      *)
(* api_tokens table changes only in a create_token or revoke_token         *)
(* exchange whose request carries a valid session cookie.                  *)
(***************************************************************************)
C2_SessionAuthIgnoresBearer ==
    [][/\ (Exchanged /\ response'.op \in SessionOps)
            => /\ response'.status # 401 <=> ValidSessionCookie(response'.parts)
               /\ response'.status = 401 <=> response'.by = "none"
               /\ ~response'.lookup
       /\ api_tokens' # api_tokens
            => /\ response'.op \in {"create_token", "revoke_token"}
               /\ ValidSessionCookie(response'.parts)]_vars

\* A token endpoint has answered 401 to a request whose bearer token is stored.
C2_Witness ==
    /\ response.op \in SessionOps
    /\ response.status = 401
    /\ StoredBearer(response.parts)

(***************************************************************************)
(* C3.  logout needs no credential and answers 200 whatever cookie it is   *)
(* sent; after a logout carrying the cookie of an issued session s the row *)
(* s is gone, a row that is gone never comes back, and a request to an     *)
(* Auth or SessionAuth endpoint presenting only cookie s is answered 401   *)
(* whenever the row s is gone.                                             *)
(***************************************************************************)
C3_LogoutRevokesSession ==
    [][/\ (Exchanged /\ response'.op = "logout")
            => /\ response'.status = 200
               /\ response'.by = "open"
               /\ \A s \in SessionIds :
                      OnlyCookie(response'.parts, s)
                          => sessions' = {r \in sessions : r.id # s}
       /\ \A s \in issued : ~SessionRow(s) => ~SessionRow(s)'
       /\ \A s \in issued :
              (/\ Exchanged
               /\ response'.op \in AuthOps \cup SessionOps
               /\ OnlyCookie(response'.parts, s)
               /\ ~SessionRow(s))
                  => response'.status = 401]_vars

\* At second 0, where the sweep deletes nothing, a request presenting only the
\* cookie of an issued session that is no longer stored has been answered 401.
C3_Witness ==
    /\ now = 0
    /\ response.op \in AuthOps \cup SessionOps
    /\ response.status = 401
    /\ \E s \in issued : OnlyCookie(response.parts, s) /\ ~SessionRow(s)

(***************************************************************************)
(* C4.  A revoke_token answered 204 removes the row with its id; the token *)
(* of a removed row is never stored again, and a request to an Auth        *)
(* endpoint presenting only that token as a Bearer header is answered 401. *)
(***************************************************************************)
C4_RevokedTokenRejected ==
    [][/\ (Exchanged /\ response'.op = "revoke_token" /\ response'.status = 204)
            => /\ \E r \in api_tokens : r.id = response'.arg.id
               /\ \A r \in api_tokens : r.id = response'.arg.id => ~TokenRow(r.token)'
       /\ \A t \in issued : ~TokenRow(t) => ~TokenRow(t)'
       /\ \A t \in issued :
              (/\ Exchanged
               /\ response'.op \in AuthOps
               /\ OnlyBearer(response'.parts, t)
               /\ ~TokenRow(t))
                  => response'.status = 401]_vars

\* A request presenting only a token that was issued and is no longer stored
\* has been answered 401 by an Auth endpoint.
C4_Witness ==
    /\ response.op \in AuthOps
    /\ response.status = 401
    /\ \E t \in issued : OnlyBearer(response.parts, t) /\ ~TokenRow(t)

(***************************************************************************)
(* C5.  A request presenting only the cookie of a stored session is        *)
(* accepted by check_session exactly while expires_at > now (at            *)
(* expires_at = now it is refused); the clock never goes back and no       *)
(* stored session changes its expires_at, so a session that has lapsed     *)
(* stays lapsed.                                                           *)
(***************************************************************************)
C5_SessionValidWhileUnexpired ==
    [][/\ \A s \in sessions :
              (/\ Exchanged
               /\ response'.op \in AuthOps \cup SessionOps \cup {"index", "login_page"}
               /\ OnlyCookie(response'.parts, s.id))
                  => (response'.by = "session" <=> s.expires_at > now)
       /\ now' >= now
       /\ \A s \in sessions : \A t \in sessions' :
              t.id = s.id => t.expires_at = s.expires_at
       /\ \A s \in sessions : s.expires_at <= now =>
              \A t \in sessions' : t.id = s.id => t.expires_at <= now']_vars

\* A request presenting the cookie of a stored session whose expires_at is
\* the current second has been refused.
C5_Witness ==
    /\ response.op \in AuthOps
    /\ response.status = 401
    /\ \E s \in sessions : OnlyCookie(response.parts, s.id) /\ s.expires_at = now

(***************************************************************************)
(* C6.  A request to a todo or token endpoint without a valid credential   *)
(* is answered 401 with no row, no text and no cookie, the path and body   *)
(* unread, and the three tables are left as they were.                     *)
(***************************************************************************)
C6_RejectedRequestHasNoEffect ==
    [][(/\ Exchanged
        /\ \/ /\ response'.op \in AuthOps
              /\ ~ValidSessionCookie(response'.parts)
              /\ ~StoredBearer(response'.parts)
           \/ /\ response'.op \in SessionOps
              /\ ~ValidSessionCookie(response'.parts))
          => /\ response'.status = 401
             /\ response'.error = "Unauthorized"
             /\ response'.rows = <<>>
             /\ response'.text = <<>>
             /\ response'.set_cookie = {}
             /\ response'.arg = NoArg
             /\ UNCHANGED <<sessions, api_tokens, todos>>]_vars

\* A request has been answered 401 while all three tables hold rows.
C6_Witness ==
    /\ response.op \in AuthOps \cup SessionOps
    /\ response.status = 401
    /\ sessions # {}
    /\ api_tokens # {}
    /\ todos # {}

(***************************************************************************)
(* C7.  Only the configured secret verifies against the stored hash.  A    *)
(* login with another password is answered 401, stores no session and     *)
(* sets no cookie; a login with the secret is answered 200, stores exactly *)
(* one new session and sets the session cookie to that row's id.           *)
(***************************************************************************)
C7_LoginIffPasswordVerifies ==
    [][/\ \A p \in Passwords : verify_password(p, password_hash) <=> p = DONEZO_PASSWORD
       /\ (Exchanged /\ response'.op = "login")
            => IF response'.arg.password = DONEZO_PASSWORD
               THEN /\ response'.status = 200
                    /\ \E id \in SessionIds :
                          /\ response'.set_cookie = {id}
                          /\ ~SessionRow(id)
                          /\ \E row \in sessions' :
                                /\ row.id = id
                                /\ sessions' = sessions \cup {row}
               ELSE /\ response'.status = 401
                    /\ response'.set_cookie = {}
                    /\ sessions' = sessions]_vars

\* A second login with the secret has stored a second session.
C7_Witness ==
    /\ response.op = "login"
    /\ response.status = 200
    /\ Cardinality(sessions) = 2

(***************************************************************************)
(* C8.  A stored API token is accepted by Auth in every state, and its row *)
(* leaves the table only in a revoke_token exchange with its id that is    *)
(* answered 204: not when the clock advances, the process restarts and     *)
(* sweeps, or the session that created it is logged out or lapses.         *)
(***************************************************************************)
C8_TokenValidUntilRevoked ==
    [][/\ \A r \in api_tokens : Auth(Parts(<<>>, Bearer(r.token))).granted
       /\ \A r \in api_tokens :
              r \notin api_tokens'
                  => /\ response'.op = "revoke_token"
                     /\ response'.status = 204
                     /\ response'.arg.id = r.id
       /\ (/\ Exchanged
           /\ response'.op \in AuthOps
           /\ StoredBearer(response'.parts))
              => response'.status # 401]_vars

\* A session lifetime after the start, with no session stored, a request has
\* been granted by its bearer token.
C8_Witness ==
    /\ response.op \in AuthOps
    /\ response.by = "bearer"
    /\ now >= SessionTtl
    /\ sessions = {}


(***************************************************************************)
(* The task list                                                           *)
(***************************************************************************)
\* The task a 201 answer of create_new_todo carries.
Created(r) == r.rows[1]

PositionsDistinct(table) == \A t, u \in table : t.position = u.position => t = u

\* Every stored task is named exactly once in ids.
NamesEveryTask(ids, table) ==
    \A t \in table : Cardinality({i \in 1..Len(ids) : ids[i] = t.id}) = 1

Reordered(r) == r.op = "reorder" /\ r.status = 200

Occurrences(ids, id) == {i \in 1..Len(ids) : ids[i] = id}

NoRepeats(ids) == \A i, j \in 1..Len(ids) : ids[i] = ids[j] => i = j

\* The last place of id in ids, counted from zero.
LastIndex(ids, id) ==
    (CHOOSE i \in Occurrences(ids, id) : \A j \in Occurrences(ids, id) : j <= i) - 1

\* C11 as stated: after a reorder, for every index i of ids the stored task
\* with id ids[i] has position i (indices counted from zero).
C11_EveryIndexHoldsItsTask ==
    Reordered(response) =>
        \A i \in 1..Len(response.arg.ids) :
            \A t \in todos : t.id = response.arg.ids[i] => t.position = i - 1

\* C11 as amended: after a reorder every stored task named in ids has the
\* index of the last occurrence of its id as position; so when ids repeats no
\* id the task with id ids[i] has position i, and when besides every id names a
\* stored task the named tasks occupy exactly the positions 0..n-1.
C11_NamedTasksTakeLastIndex ==
    [][Reordered(response') =>
          LET ids == response'.arg.ids
              named == {t \in todos' : Occurrences(ids, t.id) # {}}
          IN /\ \A t \in named : t.position = LastIndex(ids, t.id)
             /\ NoRepeats(ids) =>
                   \A i \in 1..Len(ids) :
                       \A t \in todos' : t.id = ids[i] => t.position = i - 1
             /\ (NoRepeats(ids) /\ \A i \in 1..Len(ids) : \E t \in todos : t.id = ids[i])
                   => {t.position : t \in named} = 0..(Len(ids) - 1)]_vars

\* Two stored tasks were just reordered against their order of creation by
\* ids without repeats.
C11_Witness ==
    /\ Reordered(response)
    /\ Len(response.arg.ids) = 2
    /\ NoRepeats(response.arg.ids)
    /\ \A i \in 1..2 : \E t \in todos : t.id = response.arg.ids[i] /\ t.position = i - 1
    /\ response.arg.ids[1] > response.arg.ids[2]

\* The task with id a comes before the task with id b in a listing.
Before(rows, a, b) ==
    \E i, j \in 1..Len(rows) : i < j /\ rows[i].id = a /\ rows[j].id = b

Stored(table, id) == \E t \in table : t.id = id

\* C12 as stated: in the listing a reorder returns, stored tasks named at two
\* places of ids come in the order of those places, and two omitted tasks come
\* in the order their positions gave them before.
C12_ListingFollowsSuppliedOrder ==
    [][Reordered(response') =>
          LET ids == response'.arg.ids
              rows == response'.rows
          IN /\ \A i, j \in 1..Len(ids) :
                    (i < j /\ ids[i] # ids[j] /\ Stored(todos, ids[i]) /\ Stored(todos, ids[j]))
                       => Before(rows, ids[i], ids[j])
             /\ \A t, u \in todos :
                    (/\ Occurrences(ids, t.id) = {}
                     /\ Occurrences(ids, u.id) = {}
                     /\ t.position < u.position) => Before(rows, t.id, u.id)]_vars

\* C12 as amended: every listing of the table a reorder leaves, the one the
\* reorder returns included, has the named tasks in the order of the last
\* occurrences of their ids, which is the supplied order when ids repeats no
\* id; the omitted tasks are unchanged, and two of them with different
\* positions come in the order they had before.
C12_ListingFollowsLastOccurrence ==
    [][Reordered(response') =>
          LET ids == response'.arg.ids
              named == {t \in todos : Occurrences(ids, t.id) # {}}
              omitted == todos \ named
          IN /\ response'.rows \in OrderedByPosition(todos')
             /\ omitted \subseteq todos'
             /\ \A rows \in OrderedByPosition(todos') :
                   /\ \A t, u \in named :
                         LastIndex(ids, t.id) < LastIndex(ids, u.id)
                            => Before(rows, t.id, u.id)
                   /\ NoRepeats(ids) =>
                         \A i, j \in 1..Len(ids) :
                             (i < j /\ Stored(todos, ids[i]) /\ Stored(todos, ids[j]))
                                => Before(rows, ids[i], ids[j])
                   /\ \A t, u \in omitted :
                         t.position < u.position => Before(rows, t.id, u.id)]_vars

\* Of three stored tasks the last created was just moved to the front and the
\* two omitted ones follow it in their earlier order.
C12_Witness ==
    /\ Reordered(response)
    /\ Cardinality(todos) = 3
    /\ NoRepeats(response.arg.ids)
    /\ Len(response.arg.ids) = 1
    /\ Len(response.rows) = 3
    /\ response.rows[1].id = response.arg.ids[1]
    /\ response.rows[1].id = 3
    /\ response.rows[2].position < response.rows[3].position

(***************************************************************************)
(* The connection mutex                                                    *)
(***************************************************************************)
\* Thread th has run some but not all of the UPDATEs of a reorder_todos.
MidReorder(th) ==
    LET c == pool.calls[th]
    IN c.op = "reorder_todos" /\ 0 < c.i /\ c.i < Len(c.ids)

ReadCalls == {"list_todos", "list_open_todos", "get_todo"}

\* C13: while a thread is between two UPDATEs of reorder_todos it alone holds
\* the mutex, every other thread's call has run no statement and runs none,
\* and the only step that changes the table is its own next UPDATE (other
\* threads can at most begin to wait); no list, list_open or get
\* reads the table at such a time; and when the loop is done the table is the
\* one reorder_todos computes in one piece from the table it found.
C13_ReorderHoldsTheLock ==
    [][/\ \A th \in Threads :
             MidReorder(th) =>
                LET c == pool.calls[th]
                IN /\ pool.holders = {th}
                   /\ pool'.holders = {th}
                   /\ \A o \in Threads \ {th} :
                         pool.calls[o].i = 0 /\ pool'.calls[o].i = 0
                   /\ \/ /\ todos' = SetPosition(todos, c.ids[c.i + 1], c.i)
                         /\ pool'.calls[th] = [c EXCEPT !.i = c.i + 1]
                      \/ /\ todos' = todos
                         /\ pool'.calls[th] = c
       /\ \A th \in Threads :
             (/\ pool.calls[th].op \in ReadCalls
              /\ pool'.calls[th].i = pool.calls[th].i + 1)
                => \A o \in Threads : ~MidReorder(o)
       /\ \A th \in Threads :
             LET c == pool'.calls[th]
             IN (th \in pool'.holders /\ c.op = "reorder_todos" /\ c.i = Len(c.ids))
                   => todos' = ReorderLoop(c.entered, c.ids, Len(c.ids))]_vars

\* A thread has run the first of two UPDATEs of a reorder, and the table is
\* neither the one it found nor the one the reorder will leave.
C13_Witness ==
    \E th \in Threads :
        LET c == pool.calls[th]
        IN /\ MidReorder(th)
           /\ todos # c.entered
           /\ todos # ReorderLoop(c.entered, c.ids, Len(c.ids))
           /\ ~PositionsDistinct(todos)
           /\ PositionsDistinct(ReorderLoop(c.entered, c.ids, Len(c.ids)))

(***************************************************************************)
(* Updating, missing ids and titles                                        *)
(***************************************************************************)
\* update_existing_todo has just called update_todo on a stored task.
Updated(r) == r.op = "update_existing_todo" /\ r.status = 200

\* C14 as stated, in the part about the timestamp: an update that gives
\* completed and no title leaves updated_at later than it was.
C14_UpdatedAtAdvances ==
    [][(Updated(response') /\ response'.arg.title = {} /\ response'.arg.completed # {}) =>
          \A t \in todos : \A u \in todos' :
              (t.id = response'.arg.id /\ u.id = t.id) => u.updated_at > t.updated_at]_vars

\* C14 as amended: update_todo leaves every other task and the number of
\* tasks as they are; on the task with the id it leaves id, position and
\* created_at, sets each given field and keeps each absent one; with both
\* absent it writes nothing and returns the row as stored; with a field given
\* it sets updated_at to the current second, which is not before the old
\* value and is after it only when the clock has moved on since.
C14_UpdateChangesOnlyGivenFields ==
    [][Updated(response') =>
          LET arg == response'.arg
              given == arg.title # {} \/ arg.completed # {}
          IN /\ {t \in todos' : t.id # arg.id} = {t \in todos : t.id # arg.id}
             /\ Cardinality(todos') = Cardinality(todos)
             /\ ~given => todos' = todos
             /\ \A t \in todos : t.id = arg.id =>
                   \E u \in todos' :
                      /\ response'.rows = <<u>>
                      /\ u.id = t.id
                      /\ u.position = t.position
                      /\ u.created_at = t.created_at
                      /\ u.title = IF arg.title = {} THEN t.title
                                   ELSE CHOOSE x \in arg.title : TRUE
                      /\ u.completed = IF arg.completed = {} THEN t.completed
                                       ELSE CHOOSE x \in arg.completed : TRUE
                      /\ u.updated_at = IF given THEN now ELSE t.updated_at
                      /\ u.updated_at >= t.updated_at
                      /\ u.updated_at > t.updated_at <=> (given /\ now > t.updated_at)]_vars

\* The second of two tasks was just marked completed, a second or more after
\* it was created: its title is the one it had, its updated_at is now, and the
\* other task is older and untouched.
C14_Witness ==
    /\ Updated(response)
    /\ response.arg.title = {}
    /\ response.arg.completed = {TRUE}
    /\ response.arg.id = 2
    /\ Cardinality(todos) = 2
    /\ \E u \in todos :
          /\ response.rows = <<u>>
          /\ u.completed
          /\ u.title = <<" ", "b">>
          /\ u.updated_at = now
          /\ u.created_at < now
    /\ \E t \in todos : t.id = 1 /\ t.updated_at < now

\* An authenticated get, update or delete has just been answered for an id
\* that no stored task had.
OnMissingId(r, table) ==
    /\ r.op \in {"get_single_todo", "update_existing_todo", "delete_existing_todo"}
    /\ r.by # "none"
    /\ ~Stored(table, r.arg.id)

\* Empty or all whitespace.
Blank(title) == \A i \in 1..Len(title) : title[i] = " "

BlankTitle(r) == \E t \in r.arg.title : Blank(t)

\* C15 as stated: an authenticated get, update or delete of an id that is not
\* stored is answered 404 and leaves the todos table unchanged.
C15_MissingIdIsNotFound ==
    [][OnMissingId(response', todos) => (response'.status = 404 /\ todos' = todos)]_vars

\* C15 as amended: an authenticated get, update or delete of an id that is not
\* stored leaves the todos table unchanged and is answered 404 with the error
\* Not found, except an update whose title is blank, which is answered 400
\* before the id is looked at.
C15_MissingIdIsNotFoundUnlessBlankTitle ==
    [][OnMissingId(response', todos) =>
          /\ todos' = todos
          /\ response'.rows = <<>>
          /\ IF BlankTitle(response')
             THEN response'.status = 400 /\ response'.error = "Title cannot be empty"
             ELSE response'.status = 404 /\ response'.error = "Not found"]_vars

\* With task 1 stored, an update that gives completed for the missing id 2
\* was just answered 404.
C15_Witness ==
    /\ response.op = "update_existing_todo"
    /\ response.by = "session"
    /\ response.arg.id = 2
    /\ response.arg.completed = {TRUE}
    /\ response.status = 404
    /\ Stored(todos, 1)
    /\ ~Stored(todos, 2)

\* C16: an authenticated create or update whose title is empty or all
\* whitespace is answered 400 with the error Title cannot be empty, returns no
\* task and leaves the three tables as they were; and no stored task has a
\* title that is empty or all whitespace.
C16_BlankTitleRejected ==
    [][/\ (/\ response'.op \in {"create_new_todo", "update_existing_todo"}
           /\ response'.by # "none"
           /\ BlankTitle(response'))
          => /\ response'.status = 400
             /\ response'.error = "Title cannot be empty"
             /\ response'.rows = <<>>
             /\ UNCHANGED store
       /\ \A t \in todos' : ~Blank(t.title)]_vars

\* An update of the stored task 1 with the title of one space was just
\* answered 400, and the task has the padded title it was created with.
C16_Witness ==
    /\ response.op = "update_existing_todo"
    /\ response.arg.id = 1
    /\ response.arg.title = {<<" ">>}
    /\ response.status = 400
    /\ \E t \in todos : t.id = 1 /\ t.title = <<" ", "b">>

(***************************************************************************)
(* The plain-text listing                                                  *)
(***************************************************************************)
IsOpen(t) == ~t.completed

OpenOf(rows) == SelectSeq(rows, IsOpen)

TitlesOf(rows) == [i \in 1..Len(rows) |-> rows[i].title]

\* C17: the listings list_open_todos can return are the listings of list_todos
\* with the completed tasks struck out; and the body of GET /api/todos/plain is
\* the titles of such a listing, one line for every open task and none for a
\* completed one.
C17_PlainTextListsOpenTasks ==
    /\ list_open_todos = {OpenOf(rows) : rows \in list_todos}
    /\ (response.op = "plain_text_todos" /\ response.status = 200) =>
          /\ \E rows \in list_todos : response.text = TitlesOf(OpenOf(rows))
          /\ Len(response.text) = Cardinality({t \in todos : ~t.completed})
          /\ \A t \in todos :
                (\A u \in todos : u.title = t.title => u = t) =>
                   (~t.completed <=> \E i \in 1..Len(response.text) : response.text[i] = t.title)

\* Of two tasks with different titles the first in the list is completed, and
\* the plain-text body just sent is the title of the other.
C17_Witness ==
    /\ response.op = "plain_text_todos"
    /\ response.status = 200
    /\ \E t, u \in todos :
          /\ t.title # u.title
          /\ t.position < u.position
          /\ t.completed
          /\ ~u.completed
          /\ t.id > u.id
          /\ response.text = <<u.title>>

(***************************************************************************)
(* The pages                                                               *)
(***************************************************************************)
\* C18: GET / and GET /login are never answered 401; MaybeAuth reports true
\* exactly when the request carries the cookie of a stored, unexpired session,
\* whatever its Authorization header; GET / redirects to /login exactly when
\* it reports false and serves the page otherwise; GET /login redirects to /
\* exactly when it reports true and serves the login page otherwise.
C18_MaybeAuthDecidesRedirects ==
    response.op \in {"index", "login_page"} =>
        LET valid == ValidSessionCookie(response.parts)
        IN /\ response.status \in {200, 303}
           /\ response.error = ""
           /\ response.by = "session" <=> valid
           /\ response.op = "index" =>
                 IF valid THEN response.status = 200 /\ response.location = ""
                 ELSE response.status = 303 /\ response.location = "/login"
           /\ response.op = "login_page" =>
                 IF valid THEN response.status = 303 /\ response.location = "/"
                 ELSE response.status = 200 /\ response.location = ""

\* GET / with a stored bearer token and no cookie was just redirected to the
\* login page.
C18_Witness ==
    /\ response.op = "index"
    /\ response.parts.cookies = <<>>
    /\ StoredBearer(response.parts)
    /\ response.status = 303
    /\ response.location = "/login"

(***************************************************************************)
(* What a rejection tells                                                  *)
(***************************************************************************)
\* What the client receives of an exchange.
Received(r) ==
    [status |-> r.status, set_cookie |-> r.set_cookie, rows |-> r.rows,
     text |-> r.text, error |-> r.error, location |-> r.location]

\* C19: every rejection by Auth or SessionAuth is received as the same
\* response, status 401 with the error Unauthorized and nothing else, whatever
\* cookie and Authorization header the request carried; so two rejected
\* requests to one endpoint cannot be told apart by their responses.
C19_RejectionsAreIdentical ==
    (response.op \in AuthOps \cup SessionOps /\ response.by = "none") =>
        Received(response) =
            [status |-> 401, set_cookie |-> {}, rows |-> <<>>, text |-> <<>>,
             error |-> "Unauthorized", location |-> ""]

\* A request was just rejected that carried the cookie of a stored session
\* that has expired and a stored token under a misspelt scheme.
C19_Witness ==
    /\ response.op \in AuthOps
    /\ response.by = "none"
    /\ \E s \in sessions :
          /\ response.parts.cookies = <<SessionCookie(s.id)>>
          /\ s.expires_at <= now
    /\ response.parts.authorization.kind = "text"
    /\ response.parts.authorization.scheme # "Bearer "
    /\ TokenRow(response.parts.authorization.rest)

(***************************************************************************)
(* The token table                                                         *)
(***************************************************************************)
BySession(r, op) == r.op = op /\ r.by = "session"

\* C20: a create_token answered 200 adds one row, with a token value not
\* issued before and an id no stored row has, and returns that row as stored;
\* a revoke_token by a session removes the rows with the id, and is answered
\* 204 exactly when there was one and 404 otherwise; no other step changes
\* the table; and list_tokens by a session returns every stored row once and
\* nothing else.  So the listing is always the tokens created and not revoked.
C20_TokenTableFollowsCreateAndRevoke ==
    [][/\ BySession(response', "create_token") =>
             /\ response'.status = 200
             /\ \E row \in api_tokens' :
                   /\ response'.rows = <<row>>
                   /\ row.token \notin issued
                   /\ \A t \in api_tokens : t.id # row.id /\ t.token # row.token
                   /\ api_tokens' = api_tokens \cup {row}
       /\ BySession(response', "revoke_token") =>
             /\ api_tokens' = {t \in api_tokens : t.id # response'.arg.id}
             /\ response'.status =
                   IF \E t \in api_tokens : t.id = response'.arg.id THEN 204 ELSE 404
       /\ BySession(response', "list_tokens") =>
             /\ response'.status = 200
             /\ Len(response'.rows) = Cardinality(api_tokens)
             /\ {response'.rows[i] : i \in 1..Len(response'.rows)} = api_tokens
       /\ ~(BySession(response', "create_token") \/ BySession(response', "revoke_token"))
             => api_tokens' = api_tokens]_vars

\* Two tokens were created, the first was revoked, and the listing just
\* returned holds the second alone.
C20_Witness ==
    /\ BySession(response, "list_tokens")
    /\ TokenValues \subseteq issued
    /\ Len(response.rows) = 1
    /\ response.rows[1].token = "t2"
    /\ response.rows[1].id = 2
    /\ api_tokens = {response.rows[1]}

(***************************************************************************)
(* Storage failures in the extractors                                      *)
(***************************************************************************)
\* The Authorization header is text that starts with "Bearer ".
HasBearerPrefix(parts) ==
    parts.authorization.kind = "text" /\ parts.authorization.scheme = "Bearer "

\* check_session finds a session for the request: a valid cookie, and a
\* lookup that works.
SessionValidates(parts) == ValidSessionCookie(parts) /\ "get_session" \notin faults

\* C21: in an Auth endpoint with no session validating, a header with the
\* exact prefix "Bearer " whose token lookup fails is answered 500 with the
\* storage error and not Unauthorized; a missing header, a header that is not
\* text and a header without the exact prefix are answered 401 Unauthorized
\* with no token lookup made, whether or not the lookup would fail.
C21_LookupFailureIsInternalError ==
    (response.op \in AuthOps /\ ~SessionValidates(response.parts)) =>
        IF HasBearerPrefix(response.parts)
        THEN /\ response.lookup
             /\ "get_api_token_by_value" \in faults =>
                   /\ response.status = 500
                   /\ response.error = StorageError
                   /\ response.rows = <<>>
        ELSE /\ ~response.lookup
             /\ response.status = 401
             /\ response.error = "Unauthorized"

\* With the token lookup failing, a request that presented the stored token
\* and no cookie was just answered 500.
C21_Witness ==
    /\ response.op = "list_all_todos"
    /\ response.parts.cookies = <<>>
    /\ StoredBearer(response.parts)
    /\ "get_api_token_by_value" \in faults
    /\ response.status = 500

(***************************************************************************)
(* The life of a session row                                               *)
(***************************************************************************)
\* The endpoints behind an extractor.
CheckedOps == AuthOps \cup SessionOps \cup {"index", "login_page"}

\* C22: the row a login stores expires 604800 seconds after the time of the
\* login; a stored row is afterwards kept as it is or deleted, never changed;
\* and a request to an endpoint behind Auth, SessionAuth or MaybeAuth, granted
\* or not, leaves the sessions table as it was.
C22_SessionRowsAreNeverRewritten ==
    [][/\ (response'.op = "login" /\ response'.status = 200) =>
             \E s \in sessions' :
                /\ response'.set_cookie = {s.id}
                /\ sessions' = sessions \cup {s}
                /\ s \notin sessions
                /\ s.expires_at = now + 604800
       /\ \A s \in sessions : \A t \in sessions' : t.id = s.id => t = s
       /\ (Exchanged /\ response'.op \in CheckedOps) => sessions' = sessions]_vars

\* A request carrying the cookie of an expired session was just rejected, and
\* the row is stored as the login wrote it.
C22_Witness ==
    /\ response.op \in SessionOps
    /\ response.status = 401
    /\ \E s \in sessions :
          /\ response.parts.cookies = <<SessionCookie(s.id)>>
          /\ s.expires_at <= now
          /\ s.expires_at = s.created_at + 604800

(***************************************************************************)
(* Concurrent creates                                                      *)
(***************************************************************************)
\* The thread has read the maximum position and not yet inserted its row.
HasReadMax(th) == pool.calls[th].op = "create_todo" /\ pool.calls[th].i = 1

\* The thread's create_todo has inserted its row and not yet returned.
HasInserted(th) == pool.calls[th].op = "create_todo" /\ pool.calls[th].i = 2

Handled(op) == Exchanged /\ response'.op = op /\ response'.by # "none"

\* C24 as stated: a reorder request that is let in is answered 200 whatever
\* ids it names, and the table it leaves differs from the one it found in
\* nothing but the positions of tasks named in ids.
C24_ReorderTouchesOnlyPositions ==
    [][Handled("reorder") =>
          /\ response'.status = 200
          /\ Cardinality(todos') = Cardinality(todos)
          /\ \A t \in todos :
                \E u \in todos' :
                   /\ u = [t EXCEPT !.position = u.position]
                   /\ Occurrences(response'.arg.ids, t.id) = {} => u = t]_vars

\* C24 as amended: a reorder request that is let in is answered 200 whatever
\* ids it names; the table keeps its rows, each with its id, title, completed
\* flag and created_at; a task whose id is not among ids is unchanged, position
\* included; a named task gets a position and the current second as
\* updated_at and nothing else; ids that name no task, and the empty sequence,
\* change nothing.
C24_ReorderTouchesOnlyNamedTasks ==
    [][Handled("reorder") =>
          LET ids == response'.arg.ids
          IN /\ response'.status = 200
             /\ response'.error = ""
             /\ Cardinality(todos') = Cardinality(todos)
             /\ \A t \in todos :
                   \E u \in todos' :
                      /\ u.id = t.id
                      /\ u.title = t.title
                      /\ u.completed = t.completed
                      /\ u.created_at = t.created_at
                      /\ Occurrences(ids, t.id) = {} => u = t
                      /\ Occurrences(ids, t.id) # {} => u.updated_at = now
             /\ (\A i \in 1..Len(ids) : ~Stored(todos, ids[i])) => todos' = todos
             /\ ids = <<>> => todos' = todos]_vars

\* A reorder naming an id without a task and then the first of two tasks was
\* just answered 200: the first task has position 1 and was updated now, the
\* second, completed and not named, is as it was a second or more ago.
C24_Witness ==
    /\ Reordered(response)
    /\ response.arg.ids = <<3, 1>>
    /\ Cardinality(todos) = 2
    /\ \E t \in todos : t.id = 1 /\ t.position = 1 /\ t.updated_at = now
                          /\ t.created_at < now
    /\ \E t \in todos : t.id = 2 /\ t.position = 2 /\ t.completed /\ t.updated_at < now

\* rows without the task with the id.
Without(rows, id) == SelectSeq(rows, LAMBDA t : t.id # id)

\* C25: a delete request that is let in removes the row with the id and no
\* other, and is answered 204 if there was such a row and 404 if not; every
\* remaining task is unchanged in every field, so list_todos gives exactly
\* the listings it gave before with the deleted task left out.
C25_DeleteRemovesOneRowOnly ==
    [][Handled("delete_existing_todo") =>
          LET id == response'.arg.id
          IN /\ todos' = {t \in todos : t.id # id}
             /\ response'.status = 204 <=> Stored(todos, id)
             /\ response'.status = 404 <=> ~Stored(todos, id)
             /\ OrderedByPosition(todos') =
                   {Without(rows, id) : rows \in OrderedByPosition(todos)}]_vars

\* The first of two tasks was just deleted: the second is left with its
\* position 2, so no task has position 1.
C25_Witness ==
    /\ response.op = "delete_existing_todo"
    /\ response.status = 204
    /\ response.arg.id = 1
    /\ \E t \in todos : todos = {t} /\ t.id = 2 /\ t.position = 2

(***************************************************************************)
(* Stored titles                                                           *)
(***************************************************************************)
\* The title has a character and neither begins nor ends with a space.
Trimmed(title) ==
    /\ title # <<>>
    /\ title[1] # " "
    /\ title[Len(title)] # " "

\* C26: every stored task has a title that is not empty and has no leading or
\* trailing whitespace, whether create or update wrote it.
C26_StoredTitlesAreTrimmed == \A t \in todos : Trimmed(t.title)

(***************************************************************************)
(* Several session cookies                                                 *)
(***************************************************************************)
\* Some piece of some text Cookie header is session=<id> with id the id of a
\* stored session that has not expired.
CarriesValidSession(cookie_headers) ==
    \E h \in 1..Len(cookie_headers) :
        /\ cookie_headers[h].kind = "text"
        /\ \E k \in 1..Len(cookie_headers[h].pieces) :
              LET piece == cookie_headers[h].pieces[k]
              IN /\ Len(piece) = 2
                 /\ piece[1] = "session"
                 /\ \E s \in sessions : s.id = piece[2] /\ s.expires_at > now

\* C27: a request is taken as authenticated by its session exactly when some
\* cookie named session, in whichever Cookie header and at whichever place,
\* holds the id of a stored unexpired session; unknown or expired values
\* before it do not matter.  Auth and SessionAuth then answer 200 and otherwise
\* 401 (no Authorization header sent), the page behind MaybeAuth 200 and
\* otherwise a redirect.
C27_AnyValidSessionCookieGrants ==
    response.op \in {"index", "list_tokens", "list_all_todos"} =>
        LET valid == CarriesValidSession(response.parts.cookie_headers)
        IN /\ response.by = "session" <=> valid
           /\ response.status = 200 <=> valid
           /\ response.op = "index" => (response.status = 303 <=> ~valid)
           /\ response.op # "index" => (response.status = 401 <=> ~valid)

\* A request was just let in by Auth that names the expired session s1 before
\* the unexpired session s2, in two Cookie headers or in one.
C27_Witness ==
    /\ response.op = "list_all_todos"
    /\ response.status = 200
    /\ response.parts.cookie_headers \in
          {<<CookieHeader(<<<<"session", "s1">>>>), CookieHeader(<<<<"session", "s2">>>>)>>,
           <<CookieHeader(<<<<"session", "s1">>, <<"session", "s2">>>>)>>}
    /\ \E s \in sessions : s.id = "s1" /\ s.expires_at <= now
    /\ \E s \in sessions : s.id = "s2" /\ s.expires_at > now

(***************************************************************************)
(* The sweep at startup                                                    *)
(***************************************************************************)
\* The step is a start of the process: the password is hashed under a new salt.
Started == password_hash' # password_hash

\* C28: at a start whose sweep works the sessions table loses exactly the rows
\* with expires_at < now: a row check_session would accept is kept, and so is
\* a row with expires_at = now, which check_session does not accept; at a start
\* whose sweep fails the table is left as it is and the process starts all the
\* same, with a hash that verifies the password.  Either way every request is
\* judged by Auth, SessionAuth and MaybeAuth after the start as before it, and
\* since the clock never goes back a deleted row would not be accepted later.
C28_SweepDeletesOnlyExpiredRows ==
    [][/\ now' >= now
       /\ Started =>
             /\ sessions' = IF "cleanup_expired_sessions" \in faults THEN sessions
                            ELSE {s \in sessions : s.expires_at >= now}
             /\ \A s \in sessions : s.expires_at > now => s \in sessions'
             /\ \A s \in sessions \ sessions' : s.expires_at < now
             /\ verify_password(DONEZO_PASSWORD, password_hash')
             /\ \A parts \in Cookies :
                   /\ Auth(parts)' = Auth(parts)
                   /\ SessionAuth(parts)' = SessionAuth(parts)
                   /\ MaybeAuth(parts)' = MaybeAuth(parts)]_vars

\* The process has been started again with both sessions issued: s1, expired
\* a second ago, is gone, and s2, whose expires_at is the current second, is
\* stored and is not accepted.
C28_Witness ==
    /\ password_hash.salt = "salt2"
    /\ issued = {"s1", "s2"}
    /\ \E s \in sessions : sessions = {s} /\ s.id = "s2" /\ s.expires_at = now
    /\ ~check_session(Parts(<<SessionCookie("s2")>>, NoHeader))
    /\ response.op = "list_all_todos" /\ response.status = 401
    /\ response.parts = Parts(<<SessionCookie("s2")>>, NoHeader)

(***************************************************************************)
(* created_at and expires_at of a session                                  *)
(***************************************************************************)
\* C29: every stored session has expires_at > created_at, whatever time
\* passes between the handler's reading of the clock and the INSERT.
C29_ExpiresAfterCreated == \A s \in sessions : s.expires_at > s.created_at

(***************************************************************************)
(* A session id or token drawn twice                                       *)
(***************************************************************************)
\* No two stored sessions share an id, no two stored tokens a value or an id.
StoredValuesUnique ==
    /\ \A s, t \in sessions : s.id = t.id => s = t
    /\ \A s, t \in api_tokens : (s.token = t.token \/ s.id = t.id) => s = t

\* create_session refuses an id that is stored and leaves the table as it is,
\* and stores a row for an id that is not.
InsertRefusedIffStored ==
    \A id \in SessionIds :
        LET c == create_session([id |-> id, created_at |-> now,
                                 expires_at |-> now + SessionTtl])
        IN IF \E s \in sessions : s.id = id
           THEN ~c.ok /\ c.sessions = sessions
           ELSE /\ c.ok
                /\ c.sessions = sessions \cup
                      {[id |-> id, created_at |-> now, expires_at |-> now + SessionTtl]}

\* C30: create_session called with a stored id fails and leaves the table as
\* it is; a login with the right password is then answered 500 with the
\* storage error and without a cookie, nothing is retried within the request,
\* and a login that draws an id that is not stored is answered 200 with that
\* id as cookie and stores its row; so in every state the stored sessions have
\* different ids, and the stored tokens different values.
C30_CollidingInsertIsRefused ==
    [][/\ StoredValuesUnique /\ StoredValuesUnique'
       /\ InsertRefusedIffStored
       /\ (Exchanged /\ response'.op = "login") =>
             IF ~verify_password(response'.arg.password, password_hash)
             THEN response'.status = 401 /\ sessions' = sessions
             ELSE \/ /\ response'.status = 500
                     /\ response'.error = StorageError
                     /\ response'.set_cookie = {}
                     /\ sessions' = sessions
                     /\ sessions # {}
                  \/ /\ response'.status = 200
                     /\ \E id \in SessionIds :
                           /\ \A s \in sessions : s.id # id
                           /\ response'.set_cookie = {id}
                           /\ sessions' = sessions \cup
                                 {[id |-> id, created_at |-> now,
                                   expires_at |-> now + SessionTtl]}]_vars

\* A login with the right password was just answered 500 without a cookie:
\* the one stored session, created a second ago, is as it was, so the id drawn
\* was its id.
C30_Witness ==
    /\ response.op = "login"
    /\ response.status = 500
    /\ response.set_cookie = {}
    /\ verify_password(response.arg.password, password_hash)
    /\ \E s \in sessions : sessions = {s} /\ s.created_at < now
                             /\ s.expires_at = s.created_at + SessionTtl

(***************************************************************************)
(* A reorder that fails part way                                           *)
(***************************************************************************)
\* The call of the thread is a reorder_todos that has failed.
FailedReorder(th) == pool.calls[th].op = "reorder_todos" /\ pool.calls[th].failed

\* C31: reorder_todos runs one UPDATE per id and no transaction.  When the
\* UPDATE at index k fails, the table is at that moment, and stays until the
\* function has returned, the table found with the UPDATEs of indices 0..k-1
\* applied and no other: no later UPDATE of the call runs, nothing is undone,
\* and the thread holds the mutex alone; the call then ends with the handler
\* answering 500 with the message of the storage error.
C31_FailedReorderKeepsEarlierUpdates ==
    [][\A th \in Threads :
          LET c == pool.calls[th]
          IN /\ (c.op = "reorder_todos" /\ ~c.failed /\ FailedReorder(th)') =>
                   /\ todos' = todos
                   /\ pool'.calls[th].i = c.i
                   /\ c.i < Len(c.ids)
             /\ FailedReorder(th) =>
                   /\ pool.holders = {th}
                   /\ todos = ReorderLoop(c.entered, c.ids, c.i)
                   /\ todos' = todos
                   /\ \/ pool'.calls[th] = c
                      \/ /\ pool'.calls[th] = NoCall
                         /\ pool'.holders = {}
                         /\ response'.op = "reorder"
                         /\ response'.arg.ids = c.ids
                         /\ response'.status = 500
                         /\ response'.error = StorageError
                         /\ response'.rows = <<>>]_vars

\* A reorder of two tasks has failed at its second UPDATE: the first task has
\* its new position, the second the one it had, and the table is neither the
\* one found nor the one the whole reorder would have left.
C31_Witness ==
    \E th \in Threads :
        LET c == pool.calls[th]
        IN /\ FailedReorder(th)
           /\ Len(c.ids) = 2
           /\ c.i = 1
           /\ todos # c.entered
           /\ todos # ReorderLoop(c.entered, c.ids, 2)
           /\ \E t \in todos : t.id = c.ids[1] /\ t.position = 0
           /\ \E t \in todos : t.id = c.ids[2] /\ t \in c.entered /\ t.position # 1

(***************************************************************************)
(* A credential deleted between the check and the operation                *)
(***************************************************************************)
\* The credential the request of the call was let in by is stored no more.
CredentialGone(c) ==
    /\ c.cred # ""
    /\ \A r \in sessions : r.id # c.cred
    /\ \A r \in api_tokens : r.token # c.cred

\* C32: the lookup of Auth and the create_todo of the handler are two
\* acquisitions of the mutex.  A request is let in only on a credential its
\* lookup found, and at that step its thread gives up the mutex and holds it
\* no more until create_todo has taken it anew; from then on the credential
\* is not looked up again: the thread's call stays create_todo until the row
\* is inserted, the INSERT adds the row whether or not the credential is
\* still stored, and the call ends only with the row inserted.
C32_AdmittedRequestRunsUnchecked ==
    [][\A th \in Threads :
          LET c == pool.calls[th]
              d == pool'.calls[th]
          IN /\ (c.op \in Lookups /\ d.op = "create_todo") =>
                   /\ th \in pool.holders
                   /\ pool'.holders = {}
                   /\ d.i = 0
                   /\ d.cred = c.cred
                   /\ \/ \E r \in sessions : r.id = c.cred /\ r.expires_at > now
                      \/ \E r \in api_tokens : r.token = c.cred
                   /\ todos' = todos
             /\ (c.op = "create_todo" /\ c.cred # "") =>
                   /\ d.op \in {"create_todo", "none"}
                   /\ d.op = "create_todo" => d.cred = c.cred /\ d.i >= c.i
                   /\ d.op = "none" => c.i = 2 /\ c.rows[1] \in todos
                   /\ (c.i = 1 /\ d.i = 2) =>
                         /\ Cardinality(todos') = Cardinality(todos) + 1
                         /\ d.rows[1] \in todos' \ todos]_vars

\* A request let in by the session s1 has inserted its task and still holds
\* the mutex, and s1 is not stored: the logout ran after the lookup and
\* before create_todo took the mutex.
C32_Witness ==
    \E th \in Threads :
        LET c == pool.calls[th]
        IN /\ c.op = "create_todo"
           /\ c.cred = "s1"
           /\ c.i = 2
           /\ th \in pool.holders
           /\ c.rows[1] \in todos
           /\ CredentialGone(c)

(***************************************************************************)
(* The mutex is taken once per call and always given back                  *)
(***************************************************************************)
\* The thread is in a call of db.rs.
InCall(th) == pool.calls[th] # NoCall

\* At most one thread holds the mutex, and only a thread that is in a call.
HeldWithinCalls ==
    /\ Cardinality(pool.holders) <= 1
    /\ \A th \in pool.holders : InCall(th)

\* A thread takes the mutex only at the start of its call, before any
\* statement, and not while it holds it; it gives the mutex back exactly when
\* its call ends, and a call ends, with a result or with an error, only by
\* giving it back.
TakenOnceGivenBack ==
    \A th \in Threads :
        LET c == pool.calls[th]
            d == pool'.calls[th]
        IN /\ (th \notin pool.holders /\ th \in pool'.holders) =>
                 InCall(th) /\ c.i = 0 /\ ~c.failed /\ pool.holders = {}
           /\ (th \in pool.holders /\ th \notin pool'.holders) => d = NoCall
           /\ (InCall(th) /\ d = NoCall) =>
                 /\ th \in pool.holders
                 /\ th \notin pool'.holders
                 /\ c.failed \/ c.i = Statements(c)
           /\ (th \in pool.holders /\ th \in pool'.holders) => d.entered = c.entered

\* C33: every call of db.rs takes the mutex once, at its start, and gives it
\* back when it returns, with a result or with an error; the mutex is held by
\* at most one thread and by none that is not in a call; and under a fair
\* mutex every call that has begun comes to its end, so no threads wait for
\* each other for ever.
C33_EveryCallCompletes ==
    /\ []HeldWithinCalls
    /\ [][TakenOnceGivenBack]_vars
    /\ \A th \in Threads : InCall(th) ~> ~InCall(th)

\* An update has just ended with a storage error, answered 500, and the other
\* thread, which has a call of its own, holds the mutex and has run a
\* statement.
C33_Witness ==
    /\ response.op = "update_existing_todo"
    /\ response.status = 500
    /\ \E th \in Threads :
          /\ pool.holders = {th}
          /\ pool.calls[th].i > 0
          /\ \A o \in Threads \ {th} : ~InCall(o)

(***************************************************************************)
(* A session lookup that fails                                             *)
(***************************************************************************)
\* C34: while get_session fails no request is let in by its session cookie,
\* whatever session the cookie names, and the failure is never the answer: an
\* endpoint behind SessionAuth answers 401 Unauthorized; the page behind
\* MaybeAuth takes the request as not authenticated and redirects to the
\* login; an endpoint behind Auth goes on to the bearer token as it does for
\* an unknown session id, looking the token up exactly when the header has
\* the prefix "Bearer ", letting the request in by a stored token, answering
\* 500 only when the token lookup fails, and 401 Unauthorized otherwise.
C34_FailedSessionLookupIsNoSession ==
    ("get_session" \in faults /\ response # NoExchange) =>
        /\ response.by # "session"
        /\ response.op \in SessionOps =>
              /\ response.status = 401
              /\ response.error = "Unauthorized"
        /\ response.op = "index" =>
              /\ response.status = 303
              /\ response.location = "/login"
        /\ response.op \in AuthOps =>
              /\ response.lookup = HasBearerPrefix(response.parts)
              /\ IF ~HasBearerPrefix(response.parts)
                 THEN response.status = 401 /\ response.error = "Unauthorized"
                 ELSE IF "get_api_token_by_value" \in faults
                      THEN response.status = 500 /\ response.error = StorageError
                      ELSE IF StoredBearer(response.parts)
                           THEN response.by = "bearer" /\ response.status = 200
                           ELSE response.status = 401 /\ response.error = "Unauthorized"

\* With get_session failing, a request to list the tokens that carried the
\* cookie of a stored, unexpired session was just answered 401.
C34_Witness ==
    /\ "get_session" \in faults
    /\ response.op = "list_tokens"
    /\ ValidSessionCookie(response.parts)
    /\ response.status = 401
    /\ response.error = "Unauthorized"

====
